---- MODULE Spec2Model ----
(***************************************************************************)
(* OTP verification / resend controller of the BCI e-book library app.     *)
(*                                                                         *)
(* The model follows app/otp-verification.tsx (OTPVerificationScreen) and  *)
(* lib/otpUtils (storeOTPData / getOTPData / clearOTPData).  Every await   *)
(* of the handlers is a suspension point: the code that runs between two   *)
(* awaits is one action.  Strings that the code inspects (codes, remote    *)
(* error texts) are sequences of one-character strings, so that the        *)
(* regular expression and the substring tests are computed, not assumed.   *)
(* A state update of the component is visible to the next event handled    *)
(* (the screen re-renders before the next event is dispatched).            *)
(***************************************************************************)
EXTENDS Integers, Sequences, FiniteSets, TLC

(***************************************************************************)
(* Bounds of the exploration.                                              *)
(***************************************************************************)
MaxVerifyTriggers == 3
MaxResendTriggers == 4
MaxTicks == 2

(***************************************************************************)
(* Character-level strings.                                                *)
(***************************************************************************)
Digits == {"0", "1", "2", "3", "4", "5", "6", "7", "8", "9"}

UpperCase == <<"A", "B", "C", "D", "E", "F", "G", "H", "I", "J", "K", "L", "M", "N", "O", "P", "Q", "R", "S", "T", "U", "V", "W", "X", "Y", "Z">>

LowerCase == <<"a", "b", "c", "d", "e", "f", "g", "h", "i", "j", "k", "l", "m", "n", "o", "p", "q", "r", "s", "t", "u", "v", "w", "x", "y", "z">>

\* the lower-case letter of each upper-case letter
UpperToLower == [c \in {UpperCase[i] : i \in 1..Len(UpperCase)} |->
                    LowerCase[CHOOSE i \in 1..Len(UpperCase) : UpperCase[i] = c]]

\* String.prototype.toLowerCase on one character
LowerChar(c) == IF c \in DOMAIN UpperToLower THEN UpperToLower[c] ELSE c

\* String.prototype.toLowerCase
ToLowerCase(s) == [i \in 1..Len(s) |-> LowerChar(s[i])]

\* String.prototype.includes
Includes(s, sub) ==
    \E i \in 0..Len(s) :
        /\ i + Len(sub) <= Len(s)
        /\ \A j \in 1..Len(sub) : s[i + j] = sub[j]

S_expired == <<"e", "x", "p", "i", "r", "e", "d">>
S_invalid == <<"i", "n", "v", "a", "l", "i", "d">>
S_token == <<"t", "o", "k", "e", "n">>
S_rate_limit == <<"r", "a", "t", "e", " ", "l", "i", "m", "i", "t">>
S_too_many_requests == <<"t", "o", "o", " ", "m", "a", "n", "y", " ", "r", "e", "q", "u", "e", "s", "t", "s">>
S_user_not_found == <<"u", "s", "e", "r", " ", "n", "o", "t", " ", "f", "o", "u", "n", "d">>

(***************************************************************************)
(* Inputs: the codes a caller may submit and the error texts the remote    *)
(* authentication service may answer with.                                 *)
(***************************************************************************)
Code_123456 == <<"1", "2", "3", "4", "5", "6">>
Code_000000 == <<"0", "0", "0", "0", "0", "0">>
Code_12345 == <<"1", "2", "3", "4", "5">>
Code_abcdef == <<"a", "b", "c", "d", "e", "f">>

Codes == {Code_123456, Code_000000, Code_12345, Code_abcdef}

T_TokenExpiredOrInvalid == <<"T", "o", "k", "e", "n", " ", "h", "a", "s", " ", "e", "x", "p", "i", "r", "e", "d", " ", "o", "r", " ", "i", "s", " ", "i", "n", "v", "a", "l", "i", "d">>
T_TokenExpired == <<"T", "o", "k", "e", "n", " ", "h", "a", "s", " ", "e", "x", "p", "i", "r", "e", "d">>
T_InvalidOtp == <<"I", "n", "v", "a", "l", "i", "d", " ", "O", "T", "P">>
T_BadToken == <<"B", "A", "D", " ", "T", "O", "K", "E", "N">>
T_RateLimit == <<"E", "m", "a", "i", "l", " ", "r", "a", "t", "e", " ", "l", "i", "m", "i", "t", " ", "e", "x", "c", "e", "e", "d", "e", "d">>
T_TokenRateLimit == <<"T", "o", "k", "e", "n", " ", "r", "a", "t", "e", " ", "l", "i", "m", "i", "t">>
T_TooMany == <<"T", "o", "o", " ", "M", "a", "n", "y", " ", "R", "e", "q", "u", "e", "s", "t", "s">>
T_UserNotFound == <<"U", "s", "e", "r", " ", "n", "o", "t", " ", "f", "o", "u", "n", "d">>
T_UserNotFoundRate == <<"U", "s", "e", "r", " ", "n", "o", "t", " ", "f", "o", "u", "n", "d", ":", " ", "R", "a", "t", "e", " ", "L", "i", "m", "i", "t">>
T_Network == <<"N", "e", "t", "w", "o", "r", "k", " ", "r", "e", "q", "u", "e", "s", "t", " ", "f", "a", "i", "l", "e", "d">>

\* error texts of supabase.auth.verifyOtp
VerifyErrorTexts == {T_TokenExpiredOrInvalid, T_TokenExpired, T_InvalidOtp, T_RateLimit, T_Network}

\* error texts of supabase.auth.resend and resetPasswordForEmail
ResendErrorTexts == {T_RateLimit, T_TooMany, T_UserNotFound, T_UserNotFoundRate, T_Network}

\* what the remote service answers for a code it has already consumed
ConsumedTexts == {T_TokenExpiredOrInvalid}

(***************************************************************************)
(* The persisted pending-verification record (lib/otpUtils).               *)
(***************************************************************************)
NoOTPData == [present |-> FALSE, email |-> "", type |-> ""]

OTPData(e, t) == [present |-> TRUE, email |-> e, type |-> t]

\* what the storage key may hold when the screen is opened
StoredValues ==
    {NoOTPData, OTPData("a@b.com", "register"), OTPData("a@b.com", "reset"),
     OTPData("", "register")}

RateLimitActions == {"otp_resend", "x"}

NoRateLimitData == [present |-> FALSE]

(***************************************************************************)
(* JavaScript values of the rate-limit record: a number, undefined (a      *)
(* missing field), null, or NaN.                                           *)
(***************************************************************************)
Num(n) == [k |-> "number", n |-> n]

Undefined == [k |-> "undefined", n |-> 0]

Null == [k |-> "null", n |-> 0]

NaN == [k |-> "NaN", n |-> 0]

\* ToNumber: null is 0, undefined is NaN
ToNumber(v) ==
    IF v.k = "number" THEN v
    ELSE IF v.k = "null" THEN Num(0)
    ELSE NaN

\* a && ...: the truthiness of a value
Truthy(v) == v.k = "number" /\ v.n # 0

\* a < b: false when either side is NaN
Less(a, b) ==
    /\ ToNumber(a).k = "number"
    /\ ToNumber(b).k = "number"
    /\ ToNumber(a).n < ToNumber(b).n

\* a - b
Minus(a, b) ==
    IF ToNumber(a).k = "number" /\ ToNumber(b).k = "number"
    THEN Num(ToNumber(a).n - ToNumber(b).n)
    ELSE NaN

\* a + b on numbers
Plus(a, b) ==
    IF ToNumber(a).k = "number" /\ ToNumber(b).k = "number"
    THEN Num(ToNumber(a).n + ToNumber(b).n)
    ELSE NaN

\* JSON.stringify then JSON.parse of one field: NaN is written as null, an
\* undefined field is left out
JSONField(v) == IF v.k = "NaN" THEN Null ELSE v

\* the stored text of a rate-limit record, as JSON.parse gives it back
RateLimitData(last, count, blocked) ==
    [present |-> TRUE, parse |-> "object", lastRequest |-> JSONField(last),
     requestCount |-> JSONField(count), blockedUntil |-> JSONField(blocked)]

\* a stored text that JSON.parse rejects
UnparseableData ==
    [present |-> TRUE, parse |-> "invalid", lastRequest |-> Undefined,
     requestCount |-> Undefined, blockedUntil |-> Undefined]

\* the stored text 'null'
NullData ==
    [present |-> TRUE, parse |-> "null", lastRequest |-> Undefined,
     requestCount |-> Undefined, blockedUntil |-> Undefined]

\* the stored text '{}'
EmptyObjectData == RateLimitData(Undefined, Undefined, Undefined)

\* Date.now() when the program starts
StartTime == 1000000

NoCheck ==
    [kind |-> "none", action |-> "none", at |-> 0, before |-> NoRateLimitData,
     after |-> NoRateLimitData, allowed |-> TRUE, waitTime |-> Undefined,
     ioFailed |-> FALSE]

VARIABLES
    otpStore,        \* AsyncStorage value of 'otp_verification_data'
    rlStore,         \* AsyncStorage values of 'rate_limit_data_<action>'
    consumed,        \* codes the remote service has accepted
    email, type,     \* useState: the loaded verification context
    loading, verifying, resendTimer, resendDisabled,   \* useState flags
    loadPc,          \* position of the mount effect loadOTPData
    route,           \* the screen on top of the navigation stack
    vcalls,          \* handleVerify invocations suspended at an await
    rcalls,          \* handleResend invocations suspended at an await
    lastTrigger,     \* how the latest handleVerify invocation started
    lastV,           \* the terminal outcome of the latest handleVerify, once settled
    lastR,           \* the latest terminal outcome of handleResend
    nVerifyTriggers, \* handleVerify invocations so far
    nResendTriggers, \* handleResend invocations so far
    ticks,           \* countdown timeouts fired so far, counted up to MaxTicks
    probe,           \* argument and result of a function applied on its own
    now,             \* Date.now(), in milliseconds
    rlcalls,         \* checkRateLimit invocations suspended at an await
    lastCheck,       \* the latest checkRateLimit invocation that returned
    rlLog,           \* per action, the checks that returned and the clears, in order
    nChecks,         \* checkRateLimit invocations so far
    nClears,         \* clearRateLimit and clearAllRateLimits invocations so far
    nAdvances,       \* clock steps so far
    pvLog,           \* storeOTPData, getOTPData and clearOTPData calls, in order
    ecalls,          \* handleRegister and handleResetPassword invocations suspended at an await
    lastE,           \* the latest terminal outcome of the register and forgot screens
    timeouts,        \* the setTimeouts of the countdown effect that have not fired or been
                     \* cleared, each by the resendTimer of the render that scheduled it
    effectSeen,      \* the resendTimer of the render whose countdown effect ran last
    mounted,         \* the verification screen is mounted
    digits,          \* OTPInput useState: the six boxes, each '' or one digit
    enteredOtp,      \* useState of the screen: the code reported by onChange
    globalTheme,     \* hooks/useTheme: let globalTheme
    themeListeners,  \* hooks/useTheme: let themeListeners, in order of subscription
    consumers,       \* the components that call useTheme, each with its hook state
    systemColorScheme, \* what useColorScheme of react-native returns
    themeChoice      \* the theme of the latest setTheme or toggleTheme, 'none' before

storeVars == <<otpStore, rlStore, consumed>>
ctxVars == <<email, type, loadPc>>
flagVars == <<loading, verifying>>
timerVars == <<resendTimer, resendDisabled, ticks>>
verifyVars == <<vcalls, lastTrigger, lastV, nVerifyTriggers>>
resendVars == <<rcalls, lastR, nResendTriggers>>

rlVars == <<now, rlcalls, lastCheck, rlLog, nChecks, nClears, nAdvances>>
screenVars == <<otpStore, consumed, ctxVars, flagVars, timerVars, verifyVars, resendVars, route>>

inputVars == <<digits, enteredOtp>>
themeVars == <<globalTheme, themeListeners, consumers, systemColorScheme, themeChoice>>

extVars == <<pvLog, ecalls, lastE, timeouts, effectSeen, mounted, inputVars, themeVars>>

vars == <<storeVars, ctxVars, flagVars, timerVars, verifyVars, resendVars, route, probe, rlVars,
          extVars>>

NoVerify ==
    [title |-> "none", shown |-> <<>>, errText |-> <<>>, code |-> <<>>,
     vResp |-> "none", vData |-> FALSE, sResp |-> "none",
     nav |-> "none", pvAtStart |-> NoOTPData, cleared |-> FALSE,
     wasConsumed |-> FALSE]

NoProbe == [fn |-> "none", arg |-> <<>>, result |-> <<>>, done |-> FALSE]

NoResend ==
    [title |-> "none", shown |-> <<>>, errText |-> <<>>, rResp |-> "none",
     op |-> "none", pvAtStart |-> NoOTPData]

NoEntry == [screen |-> "none", email |-> "", title |-> "none", nav |-> "none"]

\* const OTPInput = ({ length = 6, ... }), used with length={6}
OTP_LENGTH == 6

\* useState(() => Array.from({ length }, () => ''))
EmptyDigits == [i \in 1..OTP_LENGTH |-> ""]

\* the components that call useTheme
ThemeConsumers == {"settings", "login"}

\* a component that is not mounted has no hook state
NoConsumer == [phase |-> "unmounted", theme |-> "none", scheme |-> "none"]

\* the state of the screens and of the theme hook when the application starts
InitInputTheme ==
    /\ digits = EmptyDigits
    /\ enteredOtp = <<>>
    /\ globalTheme = "light"
    /\ themeListeners = <<>>
    /\ consumers = [c \in ThemeConsumers |-> NoConsumer]
    /\ systemColorScheme = "light"
    /\ themeChoice = "none"

InitScreen ==
    /\ consumed = {}
    /\ email = ""
    /\ type = "register"
    /\ loading = FALSE
    /\ verifying = FALSE
    /\ resendTimer = 0
    /\ resendDisabled = FALSE
    /\ loadPc = "reading"
    /\ route = "otp-verification"
    /\ vcalls = {}
    /\ rcalls = {}
    /\ lastTrigger = [code |-> <<>>, result |-> "none"]
    /\ lastV = NoVerify
    /\ lastR = NoResend
    /\ nVerifyTriggers = 0
    /\ nResendTriggers = 0
    /\ ticks = 0
    /\ now = StartTime
    /\ rlcalls = {}
    /\ lastCheck = NoCheck
    /\ rlLog = [a \in RateLimitActions |-> <<>>]
    /\ nChecks = 0
    /\ nClears = 0
    /\ nAdvances = 0
    /\ pvLog = <<>>
    /\ ecalls = {}
    /\ lastE = NoEntry
    /\ timeouts = {}
    /\ effectSeen = 0
    /\ mounted = TRUE
    /\ InitInputTheme

\* no rate-limit key has been written
EmptyRateLimitStore == [a \in RateLimitActions |-> NoRateLimitData]

Init ==
    /\ InitScreen
    /\ otpStore \in StoredValues
    /\ rlStore = EmptyRateLimitStore
    /\ probe = NoProbe

(***************************************************************************)
(* lib/otpUtils                                                            *)
(***************************************************************************)
\* getOTPData: the stored record, or null when the read or the parse throws
getOTPData(readOk) == IF readOk THEN otpStore ELSE NoOTPData

\* clearOTPData: removeItem; a failure is logged and swallowed
clearOTPData(removeOk) == IF removeOk THEN NoOTPData ELSE otpStore

\* JSON.parse(JSON.stringify(data)) of a record whose fields are strings:
\* the parsed object has the email and the type that were written
ParseStringify(data) == [present |-> TRUE, email |-> data.email, type |-> data.type]

\* a store that keeps the record it already holds
storeOTPData_KeepFirst(data, writeOk) ==
    IF writeOk /\ ~otpStore.present THEN ParseStringify(data) ELSE otpStore

\* storeOTPData: setItem of the one key; a failure is logged and swallowed
storeOTPData(data, writeOk) == IF writeOk THEN ParseStringify(data) ELSE otpStore

\* the other variables of the screen and of the rate-limit guard
notStoreVars ==
    <<rlStore, consumed, ctxVars, flagVars, timerVars, verifyVars, resendVars, route, probe,
      rlVars, ecalls, lastE, timeouts, effectSeen, mounted, inputVars, themeVars>>

\* a call of storeOTPData
StoreOTPData(data, writeOk) ==
    /\ otpStore' = storeOTPData(data, writeOk)
    /\ pvLog' = Append(pvLog, [op |-> "put", rec |-> data])
    /\ UNCHANGED notStoreVars

\* a call of getOTPData
GetOTPData(readOk) ==
    /\ pvLog' = Append(pvLog, [op |-> "get", rec |-> getOTPData(readOk)])
    /\ UNCHANGED <<otpStore, notStoreVars>>

\* a call of clearOTPData
ClearOTPData(removeOk) ==
    /\ otpStore' = clearOTPData(removeOk)
    /\ pvLog' = Append(pvLog, [op |-> "clear", rec |-> NoOTPData])
    /\ UNCHANGED notStoreVars

(***************************************************************************)
(* The pending-verification store on its own, from an empty key, on a      *)
(* storage that carries out every operation.                               *)
(***************************************************************************)
MaxStoreOps == 5

PutRecords ==
    {OTPData("a@b.com", "register"), OTPData("a@b.com", "reset"),
     OTPData("c@d.com", "register"), OTPData("", "register")}

InitStore == Init /\ otpStore = NoOTPData

NextStore ==
    \/ \E data \in PutRecords : Len(pvLog) < MaxStoreOps /\ StoreOTPData(data, TRUE)
    \/ Len(pvLog) < MaxStoreOps /\ GetOTPData(TRUE)
    \/ Len(pvLog) < MaxStoreOps /\ ClearOTPData(TRUE)

SpecStore == InitStore /\ [][NextStore]_vars

(***************************************************************************)
(* Mount effect: loadOTPData                                               *)
(***************************************************************************)
\* a test that takes any stored record
UsableOTPData_AnyRecord(data) == data.present

\* data && data.email && data.type
UsableOTPData(data) == data.present /\ data.email # "" /\ data.type # ""

LoadOTPData(readOk) ==
    /\ loadPc = "reading"
    /\ LET data == getOTPData(readOk) IN
        IF UsableOTPData(data)
        THEN /\ email' = data.email
             /\ type' = data.type
             /\ loadPc' = "loaded"
             /\ route' = route
        ELSE /\ loadPc' = "redirected"
             /\ route' = "login"
             /\ UNCHANGED <<email, type>>
    /\ UNCHANGED <<storeVars, flagVars, timerVars, verifyVars, resendVars, probe, rlVars, extVars>>

(***************************************************************************)
(* handleVerify                                                            *)
(***************************************************************************)
\* a format test that forgets the length
IsValidOTP_DigitsOnly(otp) == \A i \in 1..Len(otp) : otp[i] \in Digits

\* isValidOTP: /^\d{6}$/.test(otp)
IsValidOTP(otp) == Len(otp) = 6 /\ \A i \in 1..Len(otp) : otp[i] \in Digits

\* a handleVerify without the single-flight test
VerifyInProgress_Never == FALSE

\* the single-flight test that opens handleVerify: if (verifying) return
VerifyInProgress == verifying

\* type === 'register' ? 'signup' : 'recovery'
VerificationType(t) == IF t = "register" THEN "signup" ELSE "recovery"

\* a classification that tests 'invalid' and 'token' before 'expired'
ClassifyVerifyError_TokenFirst(message) ==
    LET m == ToLowerCase(message) IN
    IF Includes(m, S_invalid) \/ Includes(m, S_token) THEN "Invalid Code"
    ELSE IF Includes(m, S_expired) THEN "Code Expired"
    ELSE IF Includes(m, S_rate_limit) THEN "Too Many Attempts"
    ELSE "Verification Failed"

\* the alert chosen for a remote verification error, by its message
ClassifyVerifyError(message) ==
    LET m == ToLowerCase(message) IN
    IF Includes(m, S_expired) THEN "Code Expired"
    ELSE IF Includes(m, S_invalid) \/ Includes(m, S_token) THEN "Invalid Code"
    ELSE IF Includes(m, S_rate_limit) THEN "Too Many Attempts"
    ELSE "Verification Failed"

\* the alert shown for a remote verification error; an unclassified message
\* is shown as it is
VerifyErrorAlert(message) ==
    [title |-> ClassifyVerifyError(message),
     shown |-> IF ClassifyVerifyError(message) = "Verification Failed" THEN message ELSE <<>>]

\* an error branch that is never taken
VerifyFailed_Never(resp) == FALSE

\* if (error)
VerifyFailed(resp) == resp.kind = "error"

\* a test that asks for both to be missing and the answer to be an error
NoUserNoSession_OnlyOnError(resp) == ~resp.user /\ ~resp.session /\ resp.kind = "error"

\* if (!data?.user && !data?.session)
NoUserNoSession(resp) == ~resp.user /\ ~resp.session

\* a session check that forgets the null session
SessionConfirmed_ErrorOnly(sresp) == sresp # "error"

\* neither sessionError nor a null sessionData.session
SessionConfirmed(sresp) == sresp # "error" /\ sresp # "null"

Throw == [kind |-> "throw", message |-> <<>>, user |-> FALSE, session |-> FALSE]

ErrorResponse(m) == [kind |-> "error", message |-> m, user |-> FALSE, session |-> FALSE]

OkResponse(u, s) == [kind |-> "ok", message |-> <<>>, user |-> u, session |-> s]

\* the answers of supabase.auth.verifyOtp: a consumed code is rejected
VerifyOtpResponses(c) ==
    IF c.code \in consumed
    THEN {Throw} \cup {ErrorResponse(m) : m \in ConsumedTexts}
    ELSE {Throw} \cup {ErrorResponse(m) : m \in VerifyErrorTexts}
                 \cup {OkResponse(u, s) : u \in BOOLEAN, s \in BOOLEAN}

GetSessionResponses == {"error", "null", "session", "throw"}

\* a finally block that also clears the pending verification
SettleVerify_ClearAlways(c, title, shown, nav, store) ==
    /\ otpStore' = NoOTPData
    /\ vcalls' = {x \in vcalls : x.id # c.id}
    /\ loading' = FALSE
    /\ verifying' = FALSE
    /\ lastV' = [title |-> title, shown |-> shown, errText |-> c.errText,
                 code |-> c.code,
                 vResp |-> c.vResp, vData |-> c.vData, sResp |-> c.sResp, nav |-> nav,
                 pvAtStart |-> c.pvAtStart, cleared |-> c.cleared,
                 wasConsumed |-> c.wasConsumed]
    /\ route' = IF nav = "none" THEN route ELSE nav

\* the alert, the finally block and the end of one handleVerify invocation
SettleVerify(c, title, shown, nav, store) ==
    /\ otpStore' = store
    /\ vcalls' = {x \in vcalls : x.id # c.id}
    /\ loading' = FALSE
    /\ verifying' = FALSE
    /\ lastV' = [title |-> title, shown |-> shown, errText |-> c.errText,
                 code |-> c.code,
                 vResp |-> c.vResp, vData |-> c.vData, sResp |-> c.sResp, nav |-> nav,
                 pvAtStart |-> c.pvAtStart, cleared |-> c.cleared,
                 wasConsumed |-> c.wasConsumed]
    /\ route' = IF nav = "none" THEN route ELSE nav

\* handleVerify up to its first await, whoever calls it
handleVerify(otp) ==
    /\ nVerifyTriggers < MaxVerifyTriggers
    /\ nVerifyTriggers' = nVerifyTriggers + 1
    /\ IF VerifyInProgress
       THEN /\ lastTrigger' = [code |-> otp, result |-> "dropped"]
            /\ UNCHANGED <<flagVars, vcalls, lastV>>
       ELSE IF ~IsValidOTP(otp)
       THEN /\ lastTrigger' = [code |-> otp, result |-> "format"]
            /\ lastV' = [NoVerify EXCEPT !.title = "Invalid Format", !.code = otp,
                                         !.pvAtStart = otpStore]
            /\ UNCHANGED <<flagVars, vcalls>>
       ELSE /\ lastTrigger' = [code |-> otp, result |-> "started"]
            /\ verifying' = TRUE
            /\ loading' = TRUE
            /\ vcalls' = vcalls \cup
                 {[id |-> nVerifyTriggers + 1, pc |-> "verifyOtp", code |-> otp,
                   email |-> email, vtype |-> VerificationType(type),
                   pvAtStart |-> otpStore, errText |-> <<>>, vResp |-> "none",
                   vData |-> FALSE, sResp |-> "none", cleared |-> FALSE, wasConsumed |-> FALSE]}
            /\ lastV' = NoVerify
    /\ UNCHANGED <<storeVars, ctxVars, timerVars, resendVars, route, probe, rlVars,
                   pvLog, ecalls, lastE, timeouts, effectSeen, mounted, themeVars>>

\* an invocation of handleVerify that leaves the digit boxes as they are
HandleVerify(otp) == handleVerify(otp) /\ UNCHANGED inputVars

\* supabase.auth.verifyOtp settles; the handler runs up to its next await
VerifyOtpReturn(c, resp) ==
    /\ c \in vcalls
    /\ c.pc = "verifyOtp"
    /\ resp \in VerifyOtpResponses(c)
    /\ consumed' = IF resp.kind = "ok" THEN consumed \cup {c.code} ELSE consumed
    /\ LET d == [c EXCEPT !.vResp = resp.kind, !.errText = resp.message,
                          !.vData = (resp.user \/ resp.session),
                          !.wasConsumed = (c.code \in consumed)] IN
        IF resp.kind = "throw"
        THEN SettleVerify(d, "Verification Error", <<>>, "none", otpStore)
        ELSE IF VerifyFailed(resp)
        THEN SettleVerify(d, VerifyErrorAlert(resp.message).title,
                          VerifyErrorAlert(resp.message).shown, "none", otpStore)
        ELSE IF NoUserNoSession(resp)
        THEN SettleVerify(d, "Verification Error", <<>>, "none", otpStore)
        ELSE /\ vcalls' = (vcalls \ {c}) \cup {[d EXCEPT !.pc = "getSession"]}
             /\ UNCHANGED <<otpStore, flagVars, lastV, route>>
    /\ UNCHANGED <<rlStore, ctxVars, timerVars, resendVars, lastTrigger,
                   nVerifyTriggers, probe, rlVars, extVars>>

\* supabase.auth.getSession settles
GetSessionReturn(c, sresp) ==
    /\ c \in vcalls
    /\ c.pc = "getSession"
    /\ sresp \in GetSessionResponses
    /\ LET d == [c EXCEPT !.sResp = sresp] IN
        IF sresp = "throw"
        THEN SettleVerify(d, "Verification Error", <<>>, "none", otpStore)
        ELSE IF ~SessionConfirmed(sresp)
        THEN SettleVerify(d, "Session Error", <<>>, "login", otpStore)
        ELSE /\ vcalls' = (vcalls \ {c}) \cup {[d EXCEPT !.pc = "clearOTPData"]}
             /\ UNCHANGED <<otpStore, flagVars, lastV, route>>
    /\ UNCHANGED <<rlStore, consumed, ctxVars, timerVars, resendVars, lastTrigger,
                   nVerifyTriggers, probe, rlVars, extVars>>

\* await clearOTPData() settles, then the success alert
ClearOTPDataReturn(c, removeOk) ==
    /\ c \in vcalls
    /\ c.pc = "clearOTPData"
    /\ SettleVerify([c EXCEPT !.cleared = TRUE], "Verification Successful", <<>>, "none",
                    clearOTPData(removeOk))
    /\ UNCHANGED <<rlStore, consumed, ctxVars, timerVars, resendVars, lastTrigger,
                   nVerifyTriggers, probe, rlVars, extVars>>

(***************************************************************************)
(* handleResend                                                            *)
(***************************************************************************)
\* the remote operation chosen by the flow: if (type === 'register')
ResendOperation(t) == IF t = "register" THEN "resend_signup" ELSE "resetPasswordForEmail"

\* a classification that tests 'user not found' before the rate-limit texts
ClassifyResendError_UserFirst(message) ==
    LET m == ToLowerCase(message) IN
    IF Includes(m, S_user_not_found) THEN "User Not Found"
    ELSE IF Includes(m, S_rate_limit) \/ Includes(m, S_too_many_requests) THEN "Rate Limited"
    ELSE "Resend Failed"

\* the alert chosen for a remote resend error, by its message
ClassifyResendError(message) ==
    LET m == ToLowerCase(message) IN
    IF Includes(m, S_rate_limit) \/ Includes(m, S_too_many_requests) THEN "Rate Limited"
    ELSE IF Includes(m, S_user_not_found) THEN "User Not Found"
    ELSE "Resend Failed"

\* setResendTimer(300) after a rate-limit answer of the remote service
RATE_LIMITED_COOLDOWN == 300

\* const cooldownTime = 30
COOLDOWN_TIME == 30

ResendResponses == {Throw, OkResponse(FALSE, FALSE)} \cup {ErrorResponse(m) : m \in ResendErrorTexts}

HandleResend ==
    /\ nResendTriggers < MaxResendTriggers
    /\ nResendTriggers' = nResendTriggers + 1
    /\ IF resendDisabled
       THEN UNCHANGED <<loading, rcalls>>
       ELSE /\ loading' = TRUE
            /\ rcalls' = rcalls \cup
                 {[id |-> nResendTriggers + 1, op |-> ResendOperation(type),
                   email |-> email, pvAtStart |-> otpStore]}
    /\ UNCHANGED <<storeVars, ctxVars, verifying, timerVars, verifyVars, lastR, route, probe, rlVars, extVars>>

\* a handler whose catch branch leaves loading as it is
ResendReturn_ThrowKeepsLoading(c, resp) ==
    /\ c \in rcalls
    /\ resp \in ResendResponses
    /\ rcalls' = rcalls \ {c}
    /\ loading' = IF resp.kind = "throw" THEN loading ELSE FALSE
    /\ LET title == IF resp.kind = "throw" THEN "Resend Error"
                    ELSE IF resp.kind = "error" THEN ClassifyResendError(resp.message)
                    ELSE "Code Sent" IN
        /\ lastR' = [title |-> title,
                     shown |-> IF title = "Resend Failed" THEN resp.message ELSE <<>>,
                     errText |-> resp.message, rResp |-> resp.kind, op |-> c.op,
                     pvAtStart |-> c.pvAtStart]
        /\ IF title = "Rate Limited"
           THEN resendTimer' = RATE_LIMITED_COOLDOWN /\ resendDisabled' = TRUE
           ELSE IF title = "Code Sent"
           THEN resendTimer' = COOLDOWN_TIME /\ resendDisabled' = TRUE
           ELSE UNCHANGED <<resendTimer, resendDisabled>>
    /\ UNCHANGED <<storeVars, ctxVars, verifying, ticks, verifyVars, nResendTriggers,
                   route, probe, rlVars, extVars>>

\* the remote resend operation settles; the handler runs to its end
ResendReturn(c, resp) ==
    /\ c \in rcalls
    /\ resp \in ResendResponses
    /\ rcalls' = rcalls \ {c}
    /\ loading' = FALSE
    /\ LET title == IF resp.kind = "throw" THEN "Resend Error"
                    ELSE IF resp.kind = "error" THEN ClassifyResendError(resp.message)
                    ELSE "Code Sent" IN
        /\ lastR' = [title |-> title,
                     shown |-> IF title = "Resend Failed" THEN resp.message ELSE <<>>,
                     errText |-> resp.message, rResp |-> resp.kind, op |-> c.op,
                     pvAtStart |-> c.pvAtStart]
        /\ IF title = "Rate Limited"
           THEN resendTimer' = RATE_LIMITED_COOLDOWN /\ resendDisabled' = TRUE
           ELSE IF title = "Code Sent"
           THEN resendTimer' = COOLDOWN_TIME /\ resendDisabled' = TRUE
           ELSE UNCHANGED <<resendTimer, resendDisabled>>
    /\ UNCHANGED <<storeVars, ctxVars, verifying, ticks, verifyVars, nResendTriggers,
                   route, probe, rlVars, extVars>>

\* a countdown that enables resend again at its first tick
Tick_EnablesAtOnce ==
    /\ resendTimer > 0
    /\ ticks' = IF ticks < MaxTicks THEN ticks + 1 ELSE ticks
    /\ resendTimer' = resendTimer - 1
    /\ resendDisabled' = FALSE
    /\ UNCHANGED <<storeVars, ctxVars, flagVars, verifyVars, resendVars, route, probe, rlVars, extVars>>

\* the countdown effect: the one-second timeout fires; at zero the effect
\* re-enables resend
Tick ==
    /\ resendTimer > 0
    /\ ticks' = IF ticks < MaxTicks THEN ticks + 1 ELSE ticks
    /\ resendTimer' = resendTimer - 1
    /\ resendDisabled' = IF resendTimer - 1 > 0 THEN resendDisabled ELSE FALSE
    /\ UNCHANGED <<storeVars, ctxVars, flagVars, verifyVars, resendVars, route, probe, rlVars, extVars>>

(***************************************************************************)
(* The countdown effect step by step.  The effect runs after a render in   *)
(* which resendTimer differs from the render of its last run; its cleanup  *)
(* clears the timeout of that last run.  The callback of a timeout sets    *)
(* resendTimer to the value of its own render minus one.  Between a        *)
(* setResendTimer of a handler and the run of the effect, the timeout of   *)
(* the last run is still pending and may fire.                             *)
(***************************************************************************)
\* the effect of [resendTimer] runs: the cleanup of its last run clears the
\* timeout that run scheduled, then a new setTimeout, or
\* setResendDisabled(false) at zero
RunEffect ==
    /\ mounted
    /\ effectSeen # resendTimer
    /\ effectSeen' = resendTimer
    /\ IF resendTimer > 0
       THEN /\ timeouts' = (timeouts \ {effectSeen}) \cup {resendTimer}
            /\ resendDisabled' = resendDisabled
       ELSE /\ timeouts' = timeouts \ {effectSeen}
            /\ resendDisabled' = FALSE
    /\ UNCHANGED <<storeVars, ctxVars, flagVars, resendTimer, ticks, verifyVars, resendVars,
                   route, probe, rlVars, pvLog, ecalls, lastE, mounted, inputVars, themeVars>>

\* a callback that takes two seconds off
TimeoutFires_TwoOff(t) ==
    /\ t \in timeouts
    /\ timeouts' = timeouts \ {t}
    /\ resendTimer' = t - 2
    /\ ticks' = IF ticks < MaxTicks THEN ticks + 1 ELSE ticks
    /\ UNCHANGED <<storeVars, ctxVars, flagVars, resendDisabled, verifyVars, resendVars,
                   route, probe, rlVars, pvLog, ecalls, lastE, effectSeen, mounted,
                   inputVars, themeVars>>

\* a pending timeout fires: setResendTimer(resendTimer - 1) with the
\* resendTimer of the render that scheduled it
TimeoutFires(t) ==
    /\ t \in timeouts
    /\ timeouts' = timeouts \ {t}
    /\ resendTimer' = t - 1
    /\ ticks' = IF ticks < MaxTicks THEN ticks + 1 ELSE ticks
    /\ UNCHANGED <<storeVars, ctxVars, flagVars, resendDisabled, verifyVars, resendVars,
                   route, probe, rlVars, pvLog, ecalls, lastE, effectSeen, mounted,
                   inputVars, themeVars>>

\* some pending timeout fires
AnyTimeoutFires == \E t \in timeouts : TimeoutFires(t)

\* the back button: router.back(); the screen unmounts and the cleanup of
\* the countdown effect clears its timeout
GoBack ==
    /\ mounted
    /\ route = "otp-verification"
    /\ route' = "previous"
    /\ mounted' = FALSE
    /\ timeouts' = timeouts \ {effectSeen}
    /\ UNCHANGED <<storeVars, ctxVars, flagVars, timerVars, verifyVars, resendVars,
                   probe, rlVars, pvLog, ecalls, lastE, effectSeen, inputVars, themeVars>>

\* the Continue button of the success alert: router.replace('/(tabs)'); the
\* alert belongs to the application, so that it is also shown, and its
\* button pressed, when the screen has been left meanwhile
SuccessContinue ==
    /\ route # "(tabs)"
    /\ lastV.title = "Verification Successful"
    /\ route' = "(tabs)"
    /\ mounted' = FALSE
    /\ timeouts' = timeouts \ {effectSeen}
    /\ UNCHANGED <<storeVars, ctxVars, flagVars, timerVars, verifyVars, resendVars,
                   probe, rlVars, pvLog, ecalls, lastE, effectSeen, inputVars, themeVars>>

(***************************************************************************)
(* One countdown at a time: a resend is requested only when none is in     *)
(* flight, the screen stays mounted, and the timeouts and the effects that *)
(* are due do run.                                                         *)
(***************************************************************************)
MaxCountdownResends == 2

InitCountdown == Init /\ otpStore = OTPData("a@b.com", "register")

NextCountdown ==
    \/ \E readOk \in BOOLEAN : LoadOTPData(readOk)
    \/ nResendTriggers < MaxCountdownResends /\ rcalls = {} /\ HandleResend
    \/ \E c \in rcalls : \E resp \in ResendResponses : ResendReturn(c, resp)
    \/ RunEffect
    \/ AnyTimeoutFires

SpecCountdown ==
    /\ InitCountdown
    /\ [][NextCountdown]_vars
    /\ WF_vars(RunEffect)
    /\ WF_vars(AnyTimeoutFires)

(***************************************************************************)
(* Arming while a countdown runs: two resends may be in flight together,   *)
(* so that one of them returns while the countdown the other one armed is  *)
(* running; the user may leave by the back button.                         *)
(***************************************************************************)
MaxRearmResends == 2

NextRearm ==
    \/ \E readOk \in BOOLEAN : LoadOTPData(readOk)
    \/ mounted /\ nResendTriggers < MaxRearmResends /\ HandleResend
    \/ \E c \in rcalls : \E resp \in ResendResponses : ResendReturn(c, resp)
    \/ RunEffect
    \/ AnyTimeoutFires
    \/ GoBack

SpecRearm == InitCountdown /\ [][NextRearm]_vars

(***************************************************************************)
(* The verification screen with its ways out: one verification, a few      *)
(* resend requests, the back button and the button of the success alert.   *)
(***************************************************************************)
MaxScreenVerifies == 1
MaxScreenResends == 2

InitAbandon == Init /\ otpStore = OTPData("a@b.com", "register")

NextAbandon ==
    \/ \E readOk \in BOOLEAN : LoadOTPData(readOk)
    \/ mounted /\ nVerifyTriggers < MaxScreenVerifies /\ HandleVerify(Code_123456)
    \/ \E c \in vcalls : \E resp \in VerifyOtpResponses(c) : VerifyOtpReturn(c, resp)
    \/ \E c \in vcalls : \E sresp \in GetSessionResponses : GetSessionReturn(c, sresp)
    \/ \E c \in vcalls : \E removeOk \in BOOLEAN : ClearOTPDataReturn(c, removeOk)
    \/ mounted /\ nResendTriggers < MaxScreenResends /\ HandleResend
    \/ \E c \in rcalls : \E resp \in ResendResponses : ResendReturn(c, resp)
    \/ GoBack
    \/ SuccessContinue

SpecAbandon == InitAbandon /\ [][NextAbandon]_vars

(***************************************************************************)
(* components/OTPInput and the controls of the verification screen.  A     *)
(* change of the boxes re-renders OTPInput, and the effect of [otpValue,   *)
(* ...] runs before the next event is handled: it is part of the action    *)
(* that changed the boxes.                                                 *)
(***************************************************************************)
\* what onChangeText may deliver for one box: a pasted '12', a letter
InputTexts == {<<"1", "2">>, <<"x">>}

\* text.replace(/\D/g, '').slice(-1)
LastDigit(text) ==
    LET ds == SelectSeq(text, LAMBDA ch : ch \in Digits) IN
    IF ds = <<>> THEN "" ELSE ds[Len(ds)]

\* digits.join(''): every box holds '' or one character
otpValue(d) == SelectSeq(d, LAMBDA ch : ch # "")

\* otpValue.length === length && !otpValue.includes('')
OTPComplete(v) == Len(v) = OTP_LENGTH /\ ~Includes(v, <<>>)

\* the effect of OTPInput for the value v: onChange (setEnteredOtp), then
\* onComplete (setEnteredOtp, handleVerify) when the value counts as complete
InputEffect(v) ==
    /\ enteredOtp' = v
    /\ IF OTPComplete(v)
       THEN handleVerify(v)
       ELSE UNCHANGED <<storeVars, ctxVars, flagVars, timerVars, verifyVars, resendVars, route,
                        probe, rlVars, pvLog, ecalls, lastE, timeouts, effectSeen, mounted,
                        themeVars>>

\* editable={!disabled}, disabled={verifying || loading}
InputDisabled == verifying \/ loading

\* handleChange(text, index) of a box, then the effect
HandleChange(text, index) ==
    /\ mounted
    /\ ~InputDisabled
    /\ LET updated == [digits EXCEPT ![index] = LastDigit(text)] IN
        /\ digits' = updated
        /\ InputEffect(otpValue(updated))

\* handleKeyPress with Backspace on a box, then the effect
HandleKeyPress(index) ==
    /\ mounted
    /\ ~InputDisabled
    /\ LET updated == IF digits[index] # "" THEN [digits EXCEPT ![index] = ""]
                      ELSE IF index > 1 THEN [digits EXCEPT ![index - 1] = ""]
                      ELSE digits IN
        /\ digits' = updated
        /\ InputEffect(otpValue(updated))

\* the Create Account button is rendered: type === 'register'
CreateAccountRendered == type = "register"

\* disabled={verifying || loading || !enteredOtp || enteredOtp.length !== 6}
CreateAccountDisabled ==
    verifying \/ loading \/ enteredOtp = <<>> \/ Len(enteredOtp) # OTP_LENGTH

\* onPress of the Create Account button
PressCreateAccount ==
    /\ mounted
    /\ CreateAccountRendered
    /\ ~CreateAccountDisabled
    /\ IF enteredOtp # <<>> /\ Len(enteredOtp) = OTP_LENGTH
       THEN handleVerify(enteredOtp)
       ELSE /\ lastV' = [NoVerify EXCEPT !.title = "Enter Code"]
            /\ UNCHANGED <<storeVars, ctxVars, flagVars, timerVars, vcalls, lastTrigger,
                           nVerifyTriggers, resendVars, route, probe, rlVars, pvLog, ecalls,
                           lastE, timeouts, effectSeen, mounted, themeVars>>
    /\ UNCHANGED inputVars

\* const canResend = !disabled && !resendDisabled && (resendTimer ?? 0) <= 0
canResend == ~InputDisabled /\ ~resendDisabled /\ resendTimer <= 0

\* onPress of the Resend control: disabled={!canResend} onPress={onResend}
PressResend ==
    /\ mounted
    /\ canResend
    /\ HandleResend

(***************************************************************************)
(* The verification screen driven by its controls only: the digit boxes,   *)
(* the Create Account button and the Resend control, on every stored       *)
(* value.                                                                  *)
(***************************************************************************)
MaxInputVerifies == 1
MaxInputResends == 1

Boxes == 1..OTP_LENGTH

NextInput ==
    \/ \E readOk \in BOOLEAN : LoadOTPData(readOk)
    \/ \E text \in InputTexts : \E index \in Boxes : HandleChange(text, index)
    \/ \E index \in Boxes : HandleKeyPress(index)
    \/ nVerifyTriggers < MaxInputVerifies /\ PressCreateAccount
    \/ \E c \in vcalls : \E resp \in VerifyOtpResponses(c) : VerifyOtpReturn(c, resp)
    \/ \E c \in vcalls : \E sresp \in GetSessionResponses : GetSessionReturn(c, sresp)
    \/ \E c \in vcalls : \E removeOk \in BOOLEAN : ClearOTPDataReturn(c, removeOk)
    \/ nResendTriggers < MaxInputResends /\ PressResend
    \/ \E c \in rcalls : \E resp \in ResendResponses : ResendReturn(c, resp)

SpecInput == Init /\ [][NextInput]_vars

(***************************************************************************)
(* Every remote call returns or throws in the end: the handlers called     *)
(* freely on a stored registration, a few times each, with weak fairness   *)
(* of the answers of the remote service and of the storage.                *)
(***************************************************************************)
MaxSettleVerifies == 1
MaxSettleResends == 2

\* an await of some handleVerify invocation settles
AnyVerifyReturn ==
    \E c \in vcalls :
        \/ \E resp \in VerifyOtpResponses(c) : VerifyOtpReturn(c, resp)
        \/ \E sresp \in GetSessionResponses : GetSessionReturn(c, sresp)
        \/ \E removeOk \in BOOLEAN : ClearOTPDataReturn(c, removeOk)

\* the await of some handleResend invocation settles
AnyResendReturn == \E c \in rcalls : \E resp \in ResendResponses : ResendReturn(c, resp)

InitSettle == Init /\ otpStore = OTPData("a@b.com", "register")

NextSettle ==
    \/ \E readOk \in BOOLEAN : LoadOTPData(readOk)
    \/ \E otp \in {Code_123456, Code_12345} :
          nVerifyTriggers < MaxSettleVerifies /\ HandleVerify(otp)
    \/ AnyVerifyReturn
    \/ nResendTriggers < MaxSettleResends /\ HandleResend
    \/ AnyResendReturn

SpecSettle ==
    /\ InitSettle
    /\ [][NextSettle]_vars
    /\ WF_vars(AnyVerifyReturn)
    /\ WF_vars(AnyResendReturn)

(***************************************************************************)
(* Resend requested through the Resend control only, while handleVerify is *)
(* invoked as a handler, whatever the controls show.                       *)
(***************************************************************************)
MaxGateVerifies == 1
MaxGateResends == 2

NextGate ==
    \/ \E readOk \in BOOLEAN : LoadOTPData(readOk)
    \/ nVerifyTriggers < MaxGateVerifies /\ HandleVerify(Code_123456)
    \/ AnyVerifyReturn
    \/ nResendTriggers < MaxGateResends /\ PressResend
    \/ AnyResendReturn

SpecGate == InitAbandon /\ [][NextGate]_vars

(***************************************************************************)
(* hooks/useTheme: a module-level theme and listener list, and the hook    *)
(* state of each component that calls useTheme.  A component renders       *)
(* first (useState(globalTheme), useColorScheme()); its effects run after  *)
(* the commit, in the order in which the hook declares them.               *)
(***************************************************************************)
Themes == {"light", "dark"}

\* what useColorScheme may return
ColorSchemes == {"light", "dark", "null"}

\* the variables the theme hook leaves alone
notThemeVars ==
    <<storeVars, ctxVars, flagVars, timerVars, verifyVars, resendVars, route, probe, rlVars,
      pvLog, ecalls, lastE, timeouts, effectSeen, mounted, inputVars>>

\* the listeners as a set
ListenerSet == {themeListeners[i] : i \in 1..Len(themeListeners)}

\* notifyListeners: every subscribed listener calls the setTheme of its component
notifyListeners(cs, theme) ==
    [c \in ThemeConsumers |-> IF c \in ListenerSet THEN [cs[c] EXCEPT !.theme = theme] ELSE cs[c]]

\* (systemColorScheme as Theme) || 'light'
SchemeOrLight(scheme) == IF scheme = "null" THEN "light" ELSE scheme

\* the effect of [systemColorScheme] for a component that rendered with the
\* given scheme: the theme it leaves in globalTheme, and the hook states
InitialiseTheme(cs, scheme) ==
    IF globalTheme = "light"
    THEN [theme |-> SchemeOrLight(scheme), consumers |-> notifyListeners(cs, SchemeOrLight(scheme))]
    ELSE [theme |-> globalTheme, consumers |-> cs]

\* the device changes its colour scheme
SystemSchemeChanges(scheme) ==
    /\ scheme # systemColorScheme
    /\ systemColorScheme' = scheme
    /\ UNCHANGED <<globalTheme, themeListeners, consumers, themeChoice, notThemeVars>>

\* a component that calls useTheme renders for the first time
RenderConsumer(c) ==
    /\ consumers[c].phase = "unmounted"
    /\ consumers' = [consumers EXCEPT ![c] = [phase |-> "rendered", theme |-> globalTheme,
                                              scheme |-> systemColorScheme]]
    /\ UNCHANGED <<globalTheme, themeListeners, systemColorScheme, themeChoice, notThemeVars>>

\* the effects of the first render run: the initialisation with the system
\* scheme, then the subscription
MountEffects(c) ==
    /\ consumers[c].phase = "rendered"
    /\ LET r == InitialiseTheme(consumers, consumers[c].scheme) IN
        /\ globalTheme' = r.theme
        /\ consumers' = [r.consumers EXCEPT ![c].phase = "mounted"]
    /\ themeListeners' = Append(themeListeners, c)
    /\ UNCHANGED <<systemColorScheme, themeChoice, notThemeVars>>

\* a mounted component renders again with a new system scheme and the
\* effect of [systemColorScheme] runs again
SchemeEffect(c) ==
    /\ consumers[c].phase = "mounted"
    /\ consumers[c].scheme # systemColorScheme
    /\ LET cs == [consumers EXCEPT ![c].scheme = systemColorScheme]
           r == InitialiseTheme(cs, systemColorScheme) IN
        /\ globalTheme' = r.theme
        /\ consumers' = r.consumers
    /\ UNCHANGED <<themeListeners, systemColorScheme, themeChoice, notThemeVars>>

\* setTheme of the hook, as the Dark Mode switch of the settings screen calls it
SetTheme(c, theme) ==
    /\ consumers[c].phase = "mounted"
    /\ globalTheme' = theme
    /\ consumers' = notifyListeners(consumers, theme)
    /\ themeChoice' = theme
    /\ UNCHANGED <<themeListeners, systemColorScheme, notThemeVars>>

\* toggleTheme of the hook: the other theme than the one the component shows
ToggleTheme(c) ==
    /\ consumers[c].phase = "mounted"
    /\ LET newTheme == IF consumers[c].theme = "light" THEN "dark" ELSE "light" IN
        /\ globalTheme' = newTheme
        /\ consumers' = notifyListeners(consumers, newTheme)
        /\ themeChoice' = newTheme
    /\ UNCHANGED <<themeListeners, systemColorScheme, notThemeVars>>

\* a mounted component unmounts: the cleanup of the subscription
UnmountConsumer(c) ==
    /\ consumers[c].phase = "mounted"
    /\ consumers' = [consumers EXCEPT ![c] = NoConsumer]
    /\ themeListeners' = SelectSeq(themeListeners, LAMBDA l : l # c)
    /\ UNCHANGED <<globalTheme, systemColorScheme, themeChoice, notThemeVars>>

InitTheme == Init /\ otpStore = NoOTPData

NextTheme ==
    \/ \E scheme \in ColorSchemes : SystemSchemeChanges(scheme)
    \/ \E c \in ThemeConsumers : RenderConsumer(c)
    \/ \E c \in ThemeConsumers : MountEffects(c)
    \/ \E c \in ThemeConsumers : SchemeEffect(c)
    \/ \E theme \in Themes : SetTheme("settings", theme)
    \/ ToggleTheme("settings")
    \/ \E c \in ThemeConsumers : UnmountConsumer(c)

SpecTheme == InitTheme /\ [][NextTheme]_vars

(***************************************************************************)
(* handleVerify reads nothing that handleResend or the countdown write,    *)
(* and conversely (both only write loading); the two sub-machines are      *)
(* explored separately.                                                    *)
(***************************************************************************)
NextVerify ==
    \/ \E readOk \in BOOLEAN : LoadOTPData(readOk)
    \/ \E otp \in Codes : HandleVerify(otp)
    \/ \E c \in vcalls : \E resp \in VerifyOtpResponses(c) : VerifyOtpReturn(c, resp)
    \/ \E c \in vcalls : \E sresp \in GetSessionResponses : GetSessionReturn(c, sresp)
    \/ \E c \in vcalls : \E removeOk \in BOOLEAN : ClearOTPDataReturn(c, removeOk)

SpecVerify == Init /\ [][NextVerify]_vars

(***************************************************************************)
(* The mount effect on every kind of stored value: no record, a record     *)
(* without email or without type, a full record, and a read that fails.    *)
(***************************************************************************)
MaxLoadTriggers == 2

LoadValues ==
    StoredValues \cup {OTPData("a@b.com", ""), OTPData("", "reset"), OTPData("", "")}

InitLoad == InitScreen /\ rlStore = EmptyRateLimitStore /\ probe = NoProbe /\ otpStore \in LoadValues

NextLoad ==
    \/ \E readOk \in BOOLEAN : LoadOTPData(readOk)
    \/ \E otp \in {Code_123456, Code_12345} :
          nVerifyTriggers < MaxLoadTriggers /\ HandleVerify(otp)
    \/ \E c \in vcalls : \E resp \in VerifyOtpResponses(c) : VerifyOtpReturn(c, resp)
    \/ \E c \in vcalls : \E sresp \in GetSessionResponses : GetSessionReturn(c, sresp)
    \/ \E c \in vcalls : \E removeOk \in BOOLEAN : ClearOTPDataReturn(c, removeOk)

SpecLoad == InitLoad /\ [][NextLoad]_vars

NextResend ==
    \/ \E readOk \in BOOLEAN : LoadOTPData(readOk)
    \/ HandleResend
    \/ \E c \in rcalls : \E resp \in ResendResponses : ResendReturn(c, resp)
    \/ ticks < MaxTicks /\ Tick

SpecResend == Init /\ [][NextResend]_vars

(***************************************************************************)
(* The resend cooldown followed down to zero: one stored registration, few *)
(* resend requests, and a countdown that is left to run.                   *)
(***************************************************************************)
MaxCooldownResends == 2

InitCooldown == Init /\ otpStore = OTPData("a@b.com", "register")

NextCooldown ==
    \/ \E readOk \in BOOLEAN : LoadOTPData(readOk)
    \/ nResendTriggers < MaxCooldownResends /\ HandleResend
    \/ \E c \in rcalls : \E resp \in ResendResponses : ResendReturn(c, resp)
    \/ Tick

SpecCooldown == InitCooldown /\ [][NextCooldown]_vars

(***************************************************************************)
(* lib/rateLimitUtils: checkRateLimit, clearRateLimit; lib/supabase:       *)
(* clearAllRateLimits.                                                     *)
(***************************************************************************)
MAX_REQUESTS_PER_MINUTE == 3

BLOCK_DURATION == 5 * 60 * 1000

\* the window after which the count starts again: 60 * 1000
WINDOW == 60 * 1000

\* a wait rounded down
CeilSeconds_Floor(ms) == ms \div 1000

\* Math.ceil(ms / 1000)
CeilSeconds(ms) == (ms + 999) \div 1000

\* a block that is never consulted
BlockActive_Never(data, t) == FALSE

\* rateLimitData.blockedUntil && now < rateLimitData.blockedUntil
BlockActive(data, t) ==
    Truthy(data.blockedUntil) /\ Less(Num(t), data.blockedUntil)

\* a window test that already resets at exactly one minute
WindowElapsed_Inclusive(data, t) ==
    ~Less(Minus(Num(t), data.lastRequest), Num(WINDOW))

\* now - rateLimitData.lastRequest > 60 * 1000
WindowElapsed(data, t) ==
    Less(Num(WINDOW), Minus(Num(t), data.lastRequest))

\* a limit test that lets a fourth request through
UnderLimit_OneMore(data) == Less(data.requestCount, Num(MAX_REQUESTS_PER_MINUTE + 1))

\* rateLimitData.requestCount < MAX_REQUESTS_PER_MINUTE
UnderLimit(data) == Less(data.requestCount, Num(MAX_REQUESTS_PER_MINUTE))

Allowed == [allowed |-> TRUE, waitTime |-> Undefined]

NotAllowed(seconds) == [allowed |-> FALSE, waitTime |-> Num(seconds)]

\* a guard that sets the block without counting the refused request
RateLimitDecision_BlockKeepsCount(data, t) ==
    IF ~data.present
    THEN [threw |-> FALSE, writes |-> TRUE,
          record |-> RateLimitData(Num(t), Num(1), Undefined), result |-> Allowed]
    ELSE IF data.parse # "object"
    THEN [threw |-> TRUE, writes |-> FALSE, record |-> data, result |-> Allowed]
    ELSE IF BlockActive(data, t)
    THEN [threw |-> FALSE, writes |-> FALSE, record |-> data,
          result |-> NotAllowed(CeilSeconds(Minus(data.blockedUntil, Num(t)).n))]
    ELSE IF WindowElapsed(data, t)
    THEN [threw |-> FALSE, writes |-> TRUE,
          record |-> RateLimitData(Num(t), Num(1), Undefined), result |-> Allowed]
    ELSE IF UnderLimit(data)
    THEN [threw |-> FALSE, writes |-> TRUE,
          record |-> RateLimitData(Num(t), Plus(data.requestCount, Num(1)), Undefined),
          result |-> Allowed]
    ELSE [threw |-> FALSE, writes |-> TRUE,
          record |-> RateLimitData(Num(t), data.requestCount,
                                   Num(t + BLOCK_DURATION)),
          result |-> NotAllowed(CeilSeconds(BLOCK_DURATION))]

\* checkRateLimit from the value getItem returned to its first setItem or
\* return: whether it throws, the record it writes if any, and its result
RateLimitDecision(data, t) ==
    IF ~data.present
    THEN [threw |-> FALSE, writes |-> TRUE,
          record |-> RateLimitData(Num(t), Num(1), Undefined), result |-> Allowed]
    ELSE IF data.parse # "object"
    THEN [threw |-> TRUE, writes |-> FALSE, record |-> data, result |-> Allowed]
    ELSE IF BlockActive(data, t)
    THEN [threw |-> FALSE, writes |-> FALSE, record |-> data,
          result |-> NotAllowed(CeilSeconds(Minus(data.blockedUntil, Num(t)).n))]
    ELSE IF WindowElapsed(data, t)
    THEN [threw |-> FALSE, writes |-> TRUE,
          record |-> RateLimitData(Num(t), Num(1), Undefined), result |-> Allowed]
    ELSE IF UnderLimit(data)
    THEN [threw |-> FALSE, writes |-> TRUE,
          record |-> RateLimitData(Num(t), Plus(data.requestCount, Num(1)), Undefined),
          result |-> Allowed]
    ELSE [threw |-> FALSE, writes |-> TRUE,
          record |-> RateLimitData(Num(t), Plus(data.requestCount, Num(1)),
                                   Num(t + BLOCK_DURATION)),
          result |-> NotAllowed(CeilSeconds(BLOCK_DURATION))]

\* one checkRateLimit invocation returns to its caller
SettleCheck(c, result, ioFailed) ==
    LET entry == [kind |-> "check", action |-> c.action, at |-> c.at, before |-> c.before,
                  after |-> rlStore'[c.action], allowed |-> result.allowed,
                  waitTime |-> result.waitTime, ioFailed |-> ioFailed] IN
    /\ rlcalls' = {x \in rlcalls : x.id # c.id}
    /\ lastCheck' = entry
    /\ rlLog' = [rlLog EXCEPT ![c.action] = Append(@, entry)]

\* checkRateLimit(action) is called and suspends at AsyncStorage.getItem
CheckRateLimit(action) ==
    /\ nChecks' = nChecks + 1
    /\ rlcalls' = rlcalls \cup
         {[id |-> nChecks + 1, action |-> action, pc |-> "getItem", at |-> 0,
           before |-> NoRateLimitData, record |-> NoRateLimitData, result |-> Allowed]}
    /\ UNCHANGED <<screenVars, extVars, rlStore, probe, now, lastCheck, rlLog, nClears, nAdvances>>

\* getItem settles; the invocation reads the clock and runs to its setItem,
\* or returns when it writes nothing or when the read or the parse throws
\* (the catch block answers allowed)
GetItemReturn(c, readOk) ==
    /\ c \in rlcalls
    /\ c.pc = "getItem"
    /\ LET data == rlStore[c.action]
           d == RateLimitDecision(data, now)
           e == [c EXCEPT !.at = now, !.before = data] IN
        IF ~readOk
        THEN rlStore' = rlStore /\ SettleCheck(e, Allowed, TRUE)
        ELSE IF d.threw
        THEN rlStore' = rlStore /\ SettleCheck(e, Allowed, FALSE)
        ELSE IF ~d.writes
        THEN rlStore' = rlStore /\ SettleCheck(e, d.result, FALSE)
        ELSE /\ rlcalls' = {x \in rlcalls : x.id # c.id} \cup
                    {[e EXCEPT !.pc = "setItem", !.record = d.record, !.result = d.result]}
             /\ UNCHANGED <<rlStore, lastCheck, rlLog>>
    /\ UNCHANGED <<screenVars, extVars, probe, now, nChecks, nClears, nAdvances>>

\* a setItem under a key that all actions share
SetItemReturn_SharedKey(c, writeOk) ==
    /\ c \in rlcalls
    /\ c.pc = "setItem"
    /\ rlStore' = IF writeOk THEN [a \in RateLimitActions |-> c.record] ELSE rlStore
    /\ IF writeOk THEN SettleCheck(c, c.result, FALSE) ELSE SettleCheck(c, Allowed, TRUE)
    /\ UNCHANGED <<screenVars, extVars, probe, now, nChecks, nClears, nAdvances>>

\* setItem settles and the invocation returns; a rejected setItem is caught
\* and answered with allowed
SetItemReturn(c, writeOk) ==
    /\ c \in rlcalls
    /\ c.pc = "setItem"
    /\ rlStore' = IF writeOk THEN [rlStore EXCEPT ![c.action] = c.record] ELSE rlStore
    /\ IF writeOk THEN SettleCheck(c, c.result, FALSE) ELSE SettleCheck(c, Allowed, TRUE)
    /\ UNCHANGED <<screenVars, extVars, probe, now, nChecks, nClears, nAdvances>>

\* a clear that spares a record with a block
ClearedStore_UnlessBlocked(store, action) ==
    IF store[action].present /\ Truthy(store[action].blockedUntil)
    THEN store
    ELSE [store EXCEPT ![action] = NoRateLimitData]

\* AsyncStorage.removeItem of the key of one action
ClearedStore(store, action) == [store EXCEPT ![action] = NoRateLimitData]

\* the entry of a clear in the log of an action
ClearEntry(action, removed) ==
    [kind |-> "clear", action |-> action, at |-> now, before |-> rlStore[action],
     after |-> IF removed THEN NoRateLimitData ELSE rlStore[action], allowed |-> TRUE,
     waitTime |-> Undefined, ioFailed |-> ~removed]

\* clearRateLimit(action); a failure of removeItem is logged and swallowed
ClearRateLimit(action, removeOk) ==
    /\ nClears' = nClears + 1
    /\ rlStore' = IF removeOk THEN ClearedStore(rlStore, action) ELSE rlStore
    /\ rlLog' = [rlLog EXCEPT ![action] = Append(@, ClearEntry(action, removeOk))]
    /\ UNCHANGED <<screenVars, extVars, probe, now, rlcalls, lastCheck, nChecks, nAdvances>>

\* clearAllRateLimits: multiRemove of every key that includes
\* 'rate_limit_data'; nothing is removed when no such key exists
ClearAllRateLimits(removeOk) ==
    /\ nClears' = nClears + 1
    /\ rlStore' = IF removeOk THEN [a \in RateLimitActions |-> NoRateLimitData] ELSE rlStore
    /\ rlLog' = [a \in RateLimitActions |->
                    IF rlStore[a].present
                    THEN Append(rlLog[a], ClearEntry(a, removeOk))
                    ELSE rlLog[a]]
    /\ UNCHANGED <<screenVars, extVars, probe, now, rlcalls, lastCheck, nChecks, nAdvances>>

\* time passes
Advance(ms) ==
    /\ nAdvances' = nAdvances + 1
    /\ now' = now + ms
    /\ UNCHANGED <<screenVars, extVars, rlStore, probe, rlcalls, lastCheck, rlLog, nChecks, nClears>>

(***************************************************************************)
(* The rate-limit guard under a caller that awaits each call, with a       *)
(* storage that works.                                                     *)
(***************************************************************************)
MaxChecks == 5
MaxOtherChecks == 1
MaxAdvances == 3

ClockSteps == {1, 30000, 300000}

InitRateLimit == Init /\ otpStore = NoOTPData

\* the checks of an action that returned
ChecksOf(a) == SelectSeq(rlLog[a], LAMBDA e : e.kind = "check")

NextRateLimit ==
    \/ /\ nChecks < MaxChecks
       /\ rlcalls = {}
       /\ \E a \in RateLimitActions :
             /\ a # "x" => Len(ChecksOf(a)) < MaxOtherChecks
             /\ CheckRateLimit(a)
    \/ \E c \in rlcalls : GetItemReturn(c, TRUE)
    \/ \E c \in rlcalls : SetItemReturn(c, TRUE)
    \/ \E ms \in ClockSteps : nAdvances < MaxAdvances /\ rlcalls = {} /\ Advance(ms)

SpecRateLimit == InitRateLimit /\ [][NextRateLimit]_vars

(***************************************************************************)
(* The rate-limit guard under callers that do not wait for each other:     *)
(* several checkRateLimit calls of one action are suspended at their       *)
(* getItem or at their setItem together.  The storage works and the clock  *)
(* stands still, so that all the calls fall in one window.                 *)
(***************************************************************************)
MaxInterleavedChecks == 4

NextInterleaved ==
    \/ nChecks < MaxInterleavedChecks /\ CheckRateLimit("x")
    \/ \E c \in rlcalls : GetItemReturn(c, TRUE)
    \/ \E c \in rlcalls : SetItemReturn(c, TRUE)

SpecInterleaved == InitRateLimit /\ [][NextInterleaved]_vars

(***************************************************************************)
(* The rate-limit guard on a storage that may reject a read or a write and *)
(* whose key may hold a text the guard did not write.                      *)
(***************************************************************************)
MaxFaultyChecks == 3

CorruptedValues == {UnparseableData, NullData, EmptyObjectData}

InitRateLimitFaulty ==
    /\ InitScreen
    /\ probe = NoProbe
    /\ otpStore = NoOTPData
    /\ \E v \in {NoRateLimitData} \cup CorruptedValues :
          rlStore = [EmptyRateLimitStore EXCEPT !["x"] = v]

NextRateLimitFaulty ==
    \/ nChecks < MaxFaultyChecks /\ rlcalls = {} /\ CheckRateLimit("x")
    \/ \E c \in rlcalls : \E readOk \in BOOLEAN : GetItemReturn(c, readOk)
    \/ \E c \in rlcalls : \E writeOk \in BOOLEAN : SetItemReturn(c, writeOk)
    \/ \E ms \in ClockSteps : nAdvances < MaxAdvances /\ rlcalls = {} /\ Advance(ms)

SpecRateLimitFaulty == InitRateLimitFaulty /\ [][NextRateLimitFaulty]_vars

(***************************************************************************)
(* clearRateLimit and clearAllRateLimits next to the guard and to the      *)
(* verification and the resend of the screen.  The keys may hold what an   *)
(* earlier run of the application left in them.                            *)
(***************************************************************************)
MaxClears == 1
MaxClearChecks == 2
MaxFlowTriggers == 1

\* what an earlier run may have left under the key of an action: nothing, a
\* counted window, a block that is still running
StoredRateLimitValues ==
    {NoRateLimitData,
     RateLimitData(Num(StartTime - 1000), Num(2), Undefined),
     RateLimitData(Num(StartTime - 1000), Num(4), Num(StartTime - 1000 + BLOCK_DURATION))}

InitClear ==
    /\ InitScreen
    /\ probe = NoProbe
    /\ otpStore = OTPData("a@b.com", "register")
    /\ \E v \in StoredRateLimitValues :
          rlStore = [a \in RateLimitActions |->
                       IF a = "x" THEN v
                       ELSE RateLimitData(Num(StartTime - 1000), Num(4),
                                          Num(StartTime - 1000 + BLOCK_DURATION))]

NextClear ==
    \/ \E readOk \in BOOLEAN : LoadOTPData(readOk)
    \/ nVerifyTriggers + nResendTriggers < MaxFlowTriggers /\ HandleVerify(Code_123456)
    \/ \E c \in vcalls : \E resp \in VerifyOtpResponses(c) : VerifyOtpReturn(c, resp)
    \/ \E c \in vcalls : \E sresp \in GetSessionResponses : GetSessionReturn(c, sresp)
    \/ \E c \in vcalls : \E removeOk \in BOOLEAN : ClearOTPDataReturn(c, removeOk)
    \/ nVerifyTriggers + nResendTriggers < MaxFlowTriggers /\ HandleResend
    \/ \E c \in rcalls : \E resp \in ResendResponses : ResendReturn(c, resp)
    \/ \E a \in RateLimitActions : nChecks < MaxClearChecks /\ rlcalls = {} /\ CheckRateLimit(a)
    \/ \E c \in rlcalls : GetItemReturn(c, TRUE)
    \/ \E c \in rlcalls : SetItemReturn(c, TRUE)
    \/ \E a \in RateLimitActions : nClears < MaxClears /\ rlcalls = {} /\ ClearRateLimit(a, TRUE)
    \/ nClears < MaxClears /\ rlcalls = {} /\ ClearAllRateLimits(TRUE)

SpecClear == InitClear /\ [][NextClear]_vars

(***************************************************************************)
(* checkRateLimit and clearRateLimit of two actions side by side: a call   *)
(* of one action may be suspended while the other action is checked or     *)
(* cleared.  A pending verification is stored next to the rate-limit keys. *)
(***************************************************************************)
MaxKeyedChecks == 3
MaxKeyedClears == 1
MaxKeyedAdvances == 1

InitKeyed ==
    /\ InitScreen
    /\ probe = NoProbe
    /\ otpStore = OTPData("a@b.com", "register")
    /\ rlStore \in [RateLimitActions -> StoredRateLimitValues]

\* a checkRateLimit of the action is suspended
InFlight(a) == \E c \in rlcalls : c.action = a

NextKeyed ==
    \/ \E a \in RateLimitActions : nChecks < MaxKeyedChecks /\ ~InFlight(a) /\ CheckRateLimit(a)
    \/ \E c \in rlcalls : \E readOk \in BOOLEAN : GetItemReturn(c, readOk)
    \/ \E c \in rlcalls : \E writeOk \in BOOLEAN : SetItemReturn(c, writeOk)
    \/ \E a \in RateLimitActions : \E removeOk \in BOOLEAN :
          nClears < MaxKeyedClears /\ ~InFlight(a) /\ ClearRateLimit(a, removeOk)
    \/ \E ms \in ClockSteps : nAdvances < MaxKeyedAdvances /\ Advance(ms)

SpecKeyed == InitKeyed /\ [][NextKeyed]_vars

(***************************************************************************)
(* The register screen (handleRegister) and the forgot screen              *)
(* (handleResetPassword), where a verification starts, and the opening of  *)
(* the verification screen by its route.                                   *)
(***************************************************************************)
MaxEntryCalls == 2

P_empty == <<>>
P_short == <<"1", "2", "3", "4", "5">>
P_secret == <<"s", "e", "c", "r", "e", "t">>
P_other == <<"o", "t", "h", "e", "r", "1">>

\* what the register form may hold when the button is pressed
RegisterForms ==
    [name : {"", "Ann"}, email : {"", "a@b.com"}, password : {P_empty, P_short, P_secret},
     confirmPassword : {P_secret, P_other, P_short}]

\* what the forgot form may hold when the button is pressed
ForgotForms == {"", "a@b.com", "c@d.com"}

\* the checks that open handleRegister
RegisterFormError(f) ==
    IF f.name = "" \/ f.email = "" \/ f.password = <<>> \/ f.confirmPassword = <<>>
    THEN "Please fill in all fields"
    ELSE IF f.password # f.confirmPassword THEN "Passwords do not match"
    ELSE IF Len(f.password) < 6 THEN "Password must be at least 6 characters long"
    ELSE "none"

\* the alert of handleRegister for an error of signUp; the texts are
\* compared as they are, without toLowerCase
ClassifySignUpError(message) ==
    IF Includes(message, S_rate_limit) \/ Includes(message, S_too_many_requests)
    THEN "Rate Limited"
    ELSE "Registration Error"

SignUpResponses ==
    {Throw, OkResponse(TRUE, FALSE), OkResponse(FALSE, FALSE)}
        \cup {ErrorResponse(m) : m \in {T_RateLimit, T_TooMany, T_Network}}

SignInResponses == {Throw, OkResponse(TRUE, TRUE), ErrorResponse(T_Network)}

ResetResponses == {Throw, OkResponse(FALSE, FALSE), ErrorResponse(T_RateLimit)}

\* the variables the register and forgot screens leave alone
notEntryVars ==
    <<storeVars, ctxVars, flagVars, timerVars, verifyVars, resendVars, probe, rlVars, pvLog,
      timeouts, effectSeen, mounted, inputVars, themeVars>>

\* an identifier for a new invocation
FreeEntryId == CHOOSE i \in 1..(Cardinality(ecalls) + 1) : \A c \in ecalls : c.id # i

EntryOutcome(c, title, nav) == [screen |-> c.screen, email |-> c.email, title |-> title, nav |-> nav]

\* handleRegister up to its first await
HandleRegister(f) ==
    /\ route = "register"
    /\ IF RegisterFormError(f) # "none"
       THEN /\ lastE' = [screen |-> "register", email |-> f.email, title |-> "Error", nav |-> "none"]
            /\ ecalls' = ecalls
       ELSE /\ ecalls' = ecalls \cup
                   {[id |-> FreeEntryId, screen |-> "register", pc |-> "signUp", email |-> f.email]}
            /\ lastE' = lastE
    /\ UNCHANGED <<notEntryVars, route>>

\* supabase.auth.signUp settles
SignUpReturn(c, resp) ==
    /\ c \in ecalls
    /\ c.pc = "signUp"
    /\ IF resp.kind = "throw"
       THEN ecalls' = ecalls \ {c} /\ lastE' = EntryOutcome(c, "Error", "none")
       ELSE IF resp.kind = "error"
       THEN ecalls' = ecalls \ {c} /\ lastE' = EntryOutcome(c, ClassifySignUpError(resp.message), "none")
       ELSE IF resp.user
       THEN ecalls' = (ecalls \ {c}) \cup {[c EXCEPT !.pc = "signIn"]} /\ lastE' = lastE
       ELSE ecalls' = ecalls \ {c} /\ lastE' = EntryOutcome(c, "none", "none")
    /\ UNCHANGED <<notEntryVars, route>>

\* supabase.auth.signInWithPassword settles
SignInReturn(c, resp) ==
    /\ c \in ecalls
    /\ c.pc = "signIn"
    /\ ecalls' = ecalls \ {c}
    /\ lastE' = IF resp.kind = "throw" THEN EntryOutcome(c, "Error", "none")
                ELSE IF resp.kind = "ok" /\ resp.user THEN EntryOutcome(c, "Welcome!", "(tabs)")
                ELSE EntryOutcome(c, "Account Created", "login")
    /\ UNCHANGED <<notEntryVars, route>>

\* handleResetPassword up to its await
HandleResetPassword(e) ==
    /\ route = "forgot"
    /\ IF e = ""
       THEN /\ lastE' = [screen |-> "forgot", email |-> e, title |-> "Error", nav |-> "none"]
            /\ ecalls' = ecalls
       ELSE /\ ecalls' = ecalls \cup
                   {[id |-> FreeEntryId, screen |-> "forgot", pc |-> "reset", email |-> e]}
            /\ lastE' = lastE
    /\ UNCHANGED <<notEntryVars, route>>

\* supabase.auth.resetPasswordForEmail settles
ResetPasswordReturn(c, resp) ==
    /\ c \in ecalls
    /\ c.pc = "reset"
    /\ ecalls' = ecalls \ {c}
    /\ lastE' = IF resp.kind = "throw" THEN EntryOutcome(c, "Error", "none")
                ELSE IF resp.kind = "error" THEN EntryOutcome(c, "Reset Error", "none")
                ELSE EntryOutcome(c, "Reset Link Sent", "login")
    /\ UNCHANGED <<notEntryVars, route>>

\* the button of the last alert is pressed: router.replace or router.push
EntryAlertOK ==
    /\ route \in {"register", "forgot"}
    /\ lastE.nav # "none"
    /\ route' = lastE.nav
    /\ UNCHANGED <<notEntryVars, ecalls, lastE>>

\* the route /otp-verification is opened and the screen mounts with its
\* initial state
OpenVerification ==
    /\ ~mounted
    /\ route' = "otp-verification"
    /\ mounted' = TRUE
    /\ loadPc' = "reading"
    /\ email' = ""
    /\ type' = "register"
    /\ UNCHANGED <<storeVars, flagVars, timerVars, verifyVars, resendVars, probe, rlVars, pvLog,
                   ecalls, lastE, timeouts, effectSeen, inputVars, themeVars>>

InitEntry ==
    /\ otpStore = NoOTPData
    /\ rlStore = EmptyRateLimitStore
    /\ probe = NoProbe
    /\ consumed = {}
    /\ email = ""
    /\ type = "register"
    /\ loading = FALSE
    /\ verifying = FALSE
    /\ resendTimer = 0
    /\ resendDisabled = FALSE
    /\ loadPc = "unmounted"
    /\ route \in {"register", "forgot"}
    /\ vcalls = {}
    /\ rcalls = {}
    /\ lastTrigger = [code |-> <<>>, result |-> "none"]
    /\ lastV = NoVerify
    /\ lastR = NoResend
    /\ nVerifyTriggers = 0
    /\ nResendTriggers = 0
    /\ ticks = 0
    /\ now = StartTime
    /\ rlcalls = {}
    /\ lastCheck = NoCheck
    /\ rlLog = [a \in RateLimitActions |-> <<>>]
    /\ nChecks = 0
    /\ nClears = 0
    /\ nAdvances = 0
    /\ pvLog = <<>>
    /\ ecalls = {}
    /\ lastE = NoEntry
    /\ timeouts = {}
    /\ effectSeen = 0
    /\ mounted = FALSE
    /\ InitInputTheme

NextEntry ==
    \/ \E f \in RegisterForms : Cardinality(ecalls) < MaxEntryCalls /\ HandleRegister(f)
    \/ \E c \in ecalls : \E resp \in SignUpResponses : SignUpReturn(c, resp)
    \/ \E c \in ecalls : \E resp \in SignInResponses : SignInReturn(c, resp)
    \/ \E e \in ForgotForms : Cardinality(ecalls) < MaxEntryCalls /\ HandleResetPassword(e)
    \/ \E c \in ecalls : \E resp \in ResetResponses : ResetPasswordReturn(c, resp)
    \/ EntryAlertOK
    \/ OpenVerification
    \/ \E readOk \in BOOLEAN : LoadOTPData(readOk)

SpecEntry == InitEntry /\ [][NextEntry]_vars

(***************************************************************************)
(* The error classification applied on its own to a larger set of texts.   *)
(***************************************************************************)
MaxFragments == 2

F_Expired == <<"E", "x", "p", "i", "r", "e", "d">>
F_INVALID == <<"I", "N", "V", "A", "L", "I", "D">>
F_rate == <<"r", "a", "t", "e">>
F_limit == <<"l", "i", "m", "i", "t">>
F_space == <<" ">>
F_x == <<"x">>

Fragments == {F_Expired, F_INVALID, S_token, S_rate_limit, F_rate, F_limit, F_space, F_x}

RECURSIVE Concat(_)
Concat(fs) == IF fs = <<>> THEN <<>> ELSE Head(fs) \o Concat(Tail(fs))

Messages ==
    {Concat(fs) : fs \in UNION {[1..n -> Fragments] : n \in 0..MaxFragments}}
        \cup {T_TokenExpiredOrInvalid, T_TokenExpired, T_InvalidOtp, T_BadToken, T_RateLimit,
              T_TokenRateLimit, T_TooMany, T_UserNotFound, T_UserNotFoundRate, T_Network}

InitClassify ==
    /\ InitScreen
    /\ rlStore = EmptyRateLimitStore
    /\ otpStore = NoOTPData
    /\ probe \in {[fn |-> "VerifyErrorAlert", arg |-> m, result |-> <<>>, done |-> FALSE] :
                     m \in Messages}

ApplyVerifyErrorAlert ==
    /\ probe.fn = "VerifyErrorAlert"
    /\ ~probe.done
    /\ probe' = [probe EXCEPT !.result = VerifyErrorAlert(probe.arg), !.done = TRUE]
    /\ UNCHANGED <<storeVars, ctxVars, flagVars, timerVars, verifyVars, resendVars, route, rlVars, extVars>>

SpecClassify == InitClassify /\ [][ApplyVerifyErrorAlert]_vars

(***************************************************************************)
(* The format test applied on its own to every short text over a digit, a  *)
(* second digit, a letter and a space, and to a few texts of their own.    *)
(***************************************************************************)
MaxFormatLen == 7

FormatChars == {"1", "9", "a", " "}

\* six characters, the last one a decimal digit outside ASCII (U+0663)
Code_ArabicDigit == <<"1", "2", "3", "4", "5", "u0663">>

Code_123_456 == <<"1", "2", "3", " ", "4", "5", "6">>

FormatInputs ==
    UNION {[1..n -> FormatChars] : n \in 0..MaxFormatLen}
        \cup Codes \cup {Code_ArabicDigit, Code_123_456}

InitFormat ==
    /\ InitScreen
    /\ rlStore = EmptyRateLimitStore
    /\ otpStore = NoOTPData
    /\ probe \in {[fn |-> "isValidOTP", arg |-> c, result |-> <<>>, done |-> FALSE] :
                     c \in FormatInputs}

\* a test without the end anchor: /^\d{6}/
ApplyIsValidOTP_NoEndAnchor ==
    /\ probe.fn = "isValidOTP"
    /\ ~probe.done
    /\ probe' = [probe EXCEPT
                    !.result = IsValidOTP(SubSeq(probe.arg, 1,
                                                 IF Len(probe.arg) < 6 THEN Len(probe.arg) ELSE 6)),
                    !.done = TRUE]
    /\ UNCHANGED <<storeVars, ctxVars, flagVars, timerVars, verifyVars, resendVars, route, rlVars, extVars>>

\* isValidOTP(otp)
ApplyIsValidOTP ==
    /\ probe.fn = "isValidOTP"
    /\ ~probe.done
    /\ probe' = [probe EXCEPT !.result = IsValidOTP(probe.arg), !.done = TRUE]
    /\ UNCHANGED <<storeVars, ctxVars, flagVars, timerVars, verifyVars, resendVars, route, rlVars, extVars>>

SpecFormat == InitFormat /\ [][ApplyIsValidOTP]_vars

(***************************************************************************)
(* Properties                                                              *)
(***************************************************************************)
\* exactly six ASCII decimal digits
SixDigits(code) == Len(code) = 6 /\ \A i \in 1..Len(code) : code[i] \in Digits

\* the outcome kinds of the verification taxonomy, by alert
OutcomeKind(title) ==
    CASE title = "Verification Successful" -> "Success"
      [] title = "Code Expired" -> "ExpiredCode"
      [] title = "Invalid Code" -> "InvalidCode"
      [] title = "Too Many Attempts" -> "RateLimited"
      [] title = "Session Error" -> "SessionMissing"
      [] title = "Invalid Format" -> "FormatError"
      [] title = "Verification Failed" -> "NetworkOrUnknown"
      [] title = "Verification Error" -> "NetworkOrUnknown"
      [] OTHER -> "none"

\* C1: every remote verifyOtp call carries 'signup' when the stored pending
\* verification is a registration and 'recovery' when it is a recovery.
C1_FlowDiscriminator ==
    \A c \in vcalls :
        (c.pc = "verifyOtp" /\ c.pvAtStart.present) =>
            /\ c.pvAtStart.type = "register" => c.vtype = "signup"
            /\ c.pvAtStart.type = "reset" => c.vtype = "recovery"

\* C2: at most one verification is in flight, and a handleVerify arriving
\* while one is in flight makes no remote call and produces no outcome.
C2_SingleFlight ==
    /\ [](Cardinality(vcalls) <= 1)
    /\ [][(nVerifyTriggers' = nVerifyTriggers + 1 /\ vcalls # {}) =>
            (vcalls' = vcalls /\ lastV' = lastV /\ lastTrigger'.result = "dropped")]_vars

C2_Witness == vcalls # {} /\ lastTrigger.result = "dropped"

\* C3: Success is signalled only after verifyOtp returned without error and
\* getSession returned a session; a session query that errors or returns no
\* session ends in SessionMissing and routes to the login screen.
C3_SessionReconfirmed ==
    /\ OutcomeKind(lastV.title) = "Success" => (lastV.vResp = "ok" /\ lastV.sResp = "session")
    /\ lastV.sResp \in {"error", "null"} =>
          (OutcomeKind(lastV.title) = "SessionMissing" /\ lastV.nav = "login" /\ route = "login")

C3_Witness == lastV.sResp = "null" /\ OutcomeKind(lastV.title) = "SessionMissing"

\* C4: when Success is signalled, clearOTPData has completed and the pending
\* verification record is no longer in storage.
C4_ClearedOnSuccess ==
    OutcomeKind(lastV.title) = "Success" => (lastV.cleared /\ otpStore = NoOTPData)

\* C5: verifying a code the remote service has already consumed never signals
\* Success, and the rejection surfaces as InvalidCode or ExpiredCode.
C5_ConsumedCode ==
    lastV.wasConsumed =>
        /\ OutcomeKind(lastV.title) # "Success"
        /\ lastV.vResp = "error" => OutcomeKind(lastV.title) \in {"InvalidCode", "ExpiredCode"}

C5_Witness == lastV.wasConsumed /\ lastV.vResp = "error" /\ OutcomeKind(lastV.title) = "ExpiredCode"

\* C6 as stated: every handleVerify with a code that is not six decimal digits
\* fails with a format error.
C6_AlwaysFormatError ==
    (lastTrigger.result # "none" /\ ~SixDigits(lastTrigger.code)) => lastTrigger.result = "format"

\* C6 as amended: a handleVerify with a code that is not six decimal digits
\* makes no remote call, sets no flag and leaves the pending verification
\* alone; it fails with a format error unless a verification is in progress,
\* in which case it is dropped without an alert.
C6_FormatPrecondition ==
    [][(nVerifyTriggers' = nVerifyTriggers + 1 /\ ~SixDigits(lastTrigger'.code)) =>
         /\ vcalls' = vcalls
         /\ verifying' = verifying
         /\ loading' = loading
         /\ otpStore' = otpStore
         /\ IF verifying
            THEN lastTrigger'.result = "dropped" /\ lastV' = lastV
            ELSE lastTrigger'.result = "format" /\ OutcomeKind(lastV'.title) = "FormatError"]_vars

C6_Witness ==
    /\ ~SixDigits(lastTrigger.code)
    /\ lastTrigger.result = "format"
    /\ OutcomeKind(lastV.title) = "FormatError"
    /\ vcalls = {}
    /\ ~verifying

\* a word occurs in a text
Occurs(word, text) ==
    \E i \in 1..Len(text) : i + Len(word) - 1 <= Len(text) /\ SubSeq(text, i, i + Len(word) - 1) = word

\* C7: the kind of a remote verification error is decided by its lower-cased
\* text: 'expired' first, then 'invalid' or 'token', then 'rate limit', else
\* NetworkOrUnknown with the raw message shown.
C7_Classification ==
    (probe.fn = "VerifyErrorAlert" /\ probe.done) =>
        LET t == ToLowerCase(probe.arg)
            kind == OutcomeKind(probe.result.title) IN
        /\ Occurs(S_expired, t) => kind = "ExpiredCode"
        /\ (~Occurs(S_expired, t) /\ (Occurs(S_invalid, t) \/ Occurs(S_token, t))) =>
              kind = "InvalidCode"
        /\ (~Occurs(S_expired, t) /\ ~Occurs(S_invalid, t) /\ ~Occurs(S_token, t)
              /\ Occurs(S_rate_limit, t)) => kind = "RateLimited"
        /\ (~Occurs(S_expired, t) /\ ~Occurs(S_invalid, t) /\ ~Occurs(S_token, t)
              /\ ~Occurs(S_rate_limit, t)) =>
              (kind = "NetworkOrUnknown" /\ probe.result.shown = probe.arg)
        /\ probe.arg = T_TokenExpired => kind = "ExpiredCode"

C7_Witness ==
    /\ probe.done
    /\ probe.arg = T_TokenExpired
    /\ OutcomeKind(probe.result.title) = "ExpiredCode"

\* C8: a handleVerify that ends in anything but Success leaves the stored
\* pending verification as it was when the call started.
C8_FrameOnFailure ==
    OutcomeKind(lastV.title) \notin {"none", "Success"} => otpStore = lastV.pvAtStart

C8_Witness ==
    /\ OutcomeKind(lastV.title) = "ExpiredCode"
    /\ lastV.pvAtStart = OTPData("a@b.com", "register")
    /\ otpStore = lastV.pvAtStart

\* C9: no resend reaches the remote service unless the rate-limit guard has
\* been consulted for 'otp_resend', which leaves its record in storage.
C9_GuardConsulted ==
    \A c \in rcalls : rlStore["otp_resend"] # NoRateLimitData

\* C10: a resend that reaches the remote service uses the operation of the
\* stored flow: resend-signup for a registration, resetPasswordForEmail for a
\* recovery.
C10_ResendDispatch ==
    \A c \in rcalls :
        c.pvAtStart.present =>
            /\ c.pvAtStart.type = "register" => c.op = "resend_signup"
            /\ c.pvAtStart.type = "reset" => c.op = "resetPasswordForEmail"

\* the outcome kinds of a resend, by alert
ResendOutcomeKind(title) ==
    CASE title = "Code Sent" -> "Sent"
      [] title = "Rate Limited" -> "RateLimited"
      [] title = "User Not Found" -> "UserNotFound"
      [] title = "Resend Failed" -> "NetworkOrUnknown"
      [] title = "Resend Error" -> "NetworkOrUnknown"
      [] OTHER -> "none"

\* the remote service reports rate limiting in an error text
ReportsRateLimit(text) ==
    LET t == ToLowerCase(text) IN Occurs(S_rate_limit, t) \/ Occurs(S_too_many_requests, t)

\* the remote service reports an unknown user in an error text
ReportsUnknownUser(text) == Occurs(S_user_not_found, ToLowerCase(text))

\* a step in which a handleResend invocation ends
ResendEnds == rcalls' # rcalls /\ rcalls' \subseteq rcalls

C12_ResendClassification ==
    [][(ResendEnds /\ lastR'.rResp = "error") =>
         /\ ReportsRateLimit(lastR'.errText) =>
               ResendOutcomeKind(lastR'.title) = "RateLimited"
         /\ (~ReportsRateLimit(lastR'.errText) /\ ReportsUnknownUser(lastR'.errText)) =>
               /\ ResendOutcomeKind(lastR'.title) = "UserNotFound"
               /\ resendTimer' = resendTimer
               /\ resendDisabled' = resendDisabled
         /\ (~ReportsRateLimit(lastR'.errText) /\ ~ReportsUnknownUser(lastR'.errText)) =>
               /\ ResendOutcomeKind(lastR'.title) = "NetworkOrUnknown"
               /\ resendTimer' = resendTimer
               /\ resendDisabled' = resendDisabled]_vars

C12_Witness ==
    /\ lastR.errText = T_UserNotFoundRate
    /\ ResendOutcomeKind(lastR.title) = "RateLimited"
    /\ resendTimer = 300

(***************************************************************************)
(* Properties of the rate-limit guard.                                     *)
(***************************************************************************)
\* a record that starts a window at time t: one request, no block
IsFresh(r, t) ==
    /\ r.present
    /\ r.lastRequest = Num(t)
    /\ r.requestCount = Num(1)
    /\ r.blockedUntil.k = "undefined"

\* a record carries a block
HasBlock(r) == r.present /\ r.blockedUntil.k = "number"

\* a record carries a block that has not elapsed at time t
BlockedAt(r, t) == HasBlock(r) /\ t < r.blockedUntil.n

\* the first k entries of a log are checks
ChecksOnly(L, k) == \A i \in 1..k : L[i].kind = "check"

\* C13: from an empty store, the first three checks of an action made within
\* 60 seconds are allowed; the fourth within that window is refused with a
\* wait of 300 seconds and a block until 300 seconds later; the check made
\* once that block has elapsed is allowed and starts a window of one request
\* without a block.
C13_Sequence ==
    \A a \in RateLimitActions :
        LET L == rlLog[a]
            Within(i) == L[i].at - L[1].at <= 60000 IN
        /\ (Len(L) >= 1 /\ ChecksOnly(L, 1)) => L[1].allowed
        /\ \A i \in 2..3 : (Len(L) >= i /\ ChecksOnly(L, i) /\ Within(i)) => L[i].allowed
        /\ (Len(L) >= 4 /\ ChecksOnly(L, 4) /\ Within(4)) =>
              /\ ~L[4].allowed
              /\ L[4].waitTime = Num(300)
              /\ HasBlock(L[4].after)
              /\ L[4].after.blockedUntil.n = L[4].at + 300000
        /\ (Len(L) >= 5 /\ ChecksOnly(L, 5) /\ Within(4) /\ L[5].at >= L[4].at + 300000) =>
              (L[5].allowed /\ IsFresh(L[5].after, L[5].at))

C13_Witness ==
    LET L == rlLog["x"] IN
    /\ Len(L) = 5
    /\ L[4].at - L[1].at <= 60000
    /\ ~L[4].allowed
    /\ L[5].at = L[4].at + 300000
    /\ L[5].allowed
    /\ rlStore["x"].requestCount = Num(1)

\* a check that finds a record whose window has elapsed and no running block
IsReset(e) ==
    /\ e.kind = "check"
    /\ e.before.present
    /\ ~BlockedAt(e.before, e.at)
    /\ e.at - e.before.lastRequest.n > 60000

\* C14: a check made more than 60 seconds after lastRequest with no block
\* running is allowed and stores requestCount 1 and lastRequest now; at
\* exactly 60 seconds the count goes on; after a reset the two next checks of
\* the new window are allowed and the one after them is refused.
C14_WindowReset ==
    \A a \in RateLimitActions :
        LET L == rlLog[a] IN
        \A i \in 1..Len(L) :
            /\ IsReset(L[i]) => (L[i].allowed /\ IsFresh(L[i].after, L[i].at))
            /\ (L[i].kind = "check" /\ L[i].before.present /\ ~BlockedAt(L[i].before, L[i].at)
                  /\ L[i].at - L[i].before.lastRequest.n = 60000) =>
                  L[i].after.requestCount = Num(L[i].before.requestCount.n + 1)
            /\ IsReset(L[i]) =>
                  /\ \A j \in (i + 1)..(i + 2) :
                        (j <= Len(L) /\ L[j].kind = "check" /\ L[j].at - L[i].at <= 60000) =>
                            L[j].allowed
                  /\ (i + 3 <= Len(L) /\ \A j \in (i + 1)..(i + 3) : L[j].kind = "check"
                        /\ L[i + 3].at - L[i].at <= 60000) => ~L[i + 3].allowed

C14_Witness ==
    LET L == rlLog["x"] IN
    /\ Len(L) = 5
    /\ L[2].at - L[1].at = 60001
    /\ L[2].before.requestCount = Num(1)
    /\ L[2].after.requestCount = Num(1)
    /\ L[3].allowed
    /\ L[4].allowed
    /\ ~L[5].allowed

\* C15: a check that finds a block that has not elapsed is refused whatever
\* lastRequest and requestCount are, with the wait in whole seconds rounded
\* up, between 1 and 300; a check at or after blockedUntil is not refused.
C15_ActiveBlock ==
    \A a \in RateLimitActions :
        \A i \in 1..Len(rlLog[a]) :
            LET e == rlLog[a][i] IN
            (e.kind = "check" /\ HasBlock(e.before)) =>
                IF e.at < e.before.blockedUntil.n
                THEN /\ ~e.allowed
                     /\ e.waitTime.k = "number"
                     /\ (e.waitTime.n - 1) * 1000 < e.before.blockedUntil.n - e.at
                     /\ e.before.blockedUntil.n - e.at <= e.waitTime.n * 1000
                     /\ e.waitTime.n >= 1
                     /\ e.waitTime.n <= 300
                ELSE e.allowed

C15_Witness ==
    /\ lastCheck.kind = "check"
    /\ HasBlock(lastCheck.before)
    /\ lastCheck.before.blockedUntil.n - lastCheck.at = 269999
    /\ ~lastCheck.allowed
    /\ lastCheck.waitTime = Num(270)

\* C16: a stored record has blockedUntil only with requestCount above 3, and
\* a stored record without blockedUntil has requestCount from 1 to 3.
C16_BlockOnlyAboveCeiling ==
    \A a \in RateLimitActions :
        rlStore[a].present =>
            /\ rlStore[a].requestCount.k = "number"
            /\ HasBlock(rlStore[a]) => rlStore[a].requestCount.n > 3
            /\ ~HasBlock(rlStore[a]) =>
                  (rlStore[a].requestCount.n >= 1 /\ rlStore[a].requestCount.n <= 3)

C16_Witness ==
    /\ HasBlock(rlStore["x"])
    /\ rlStore["x"].requestCount = Num(4)
    /\ rlStore["otp_resend"].present
    /\ ~HasBlock(rlStore["otp_resend"])

\* the allowed checks of an action made from time lo to time hi
AcceptedIn(a, lo, hi) ==
    Cardinality({i \in 1..Len(rlLog[a]) :
                    /\ rlLog[a][i].kind = "check"
                    /\ rlLog[a][i].allowed
                    /\ rlLog[a][i].at >= lo
                    /\ rlLog[a][i].at <= hi})

\* C17: the requestCount of a stored record is the number of checks allowed
\* in the 60 seconds that end at its lastRequest, and a record carries a
\* block only if three checks were allowed in the 60 seconds before it.
C17_TrueWindowCount ==
    \A a \in RateLimitActions :
        LET r == rlStore[a] IN
        r.present =>
            IF HasBlock(r)
            THEN AcceptedIn(a, r.lastRequest.n - 60000, r.lastRequest.n) >= 3
            ELSE r.requestCount.n = AcceptedIn(a, r.lastRequest.n - 60000, r.lastRequest.n)

Corrupted(r) ==
    /\ r.present
    /\ \/ r.parse # "object"
       \/ r.lastRequest.k # "number"
       \/ r.requestCount.k # "number"
       \/ r.blockedUntil.k \notin {"number", "undefined"}

\* C19: a check whose read or write is rejected by the storage, or that
\* finds a stored value that is not a record of the guard, answers allowed
\* without a wait.
C19_FailOpen ==
    \A i \in 1..Len(rlLog["x"]) :
        LET e == rlLog["x"][i] IN
        (e.kind = "check" /\ (e.ioFailed \/ Corrupted(e.before))) =>
            (e.allowed /\ e.waitTime.k = "undefined")

\* C20: a clear deletes the record of its action whatever the record holds
\* and leaves the other records alone; the check that follows a clear finds
\* no record, is allowed and stores requestCount 1 without a block; no step
\* of the verification or of the resend clears or writes a rate-limit record.
C20_ClearUnconditional ==
    /\ [][nClears' = nClears + 1 =>
             \A a \in RateLimitActions :
                 IF rlLog'[a] # rlLog[a]
                 THEN rlStore'[a] = NoRateLimitData
                 ELSE rlStore'[a] = rlStore[a]]_vars
    /\ [](\A a \in RateLimitActions :
             \A i \in 1..Len(rlLog[a]) :
                 (rlLog[a][i].kind = "clear" /\ i + 1 <= Len(rlLog[a])
                    /\ rlLog[a][i + 1].kind = "check") =>
                     /\ ~rlLog[a][i + 1].before.present
                     /\ rlLog[a][i + 1].allowed
                     /\ IsFresh(rlLog[a][i + 1].after, rlLog[a][i + 1].at))
    /\ [][(vcalls' # vcalls \/ rcalls' # rcalls \/ lastV' # lastV \/ lastR' # lastR
             \/ nVerifyTriggers' # nVerifyTriggers \/ nResendTriggers' # nResendTriggers
             \/ loadPc' # loadPc) =>
             (nClears' = nClears /\ rlStore' = rlStore /\ rlLog' = rlLog)]_vars

C20_Witness ==
    /\ Len(rlLog["x"]) = 2
    /\ rlLog["x"][1].kind = "clear"
    /\ BlockedAt(rlLog["x"][1].before, rlLog["x"][1].at)
    /\ rlLog["x"][2].kind = "check"
    /\ rlLog["x"][2].allowed
    /\ rlStore["x"].requestCount = Num(1)
    /\ HasBlock(rlStore["otp_resend"])
    /\ nVerifyTriggers + nResendTriggers = 1
    /\ vcalls = {}
    /\ rcalls = {}

\* C21: a rate-limit record changes only in a step of a check or a clear of
\* its own action, and such a step leaves the record of every other action
\* and the pending verification as they were; a check is refused only on
\* the record of its own action, so a check that finds no record of its
\* action is allowed whatever the other action holds.
C21_KeyedByAction ==
    /\ [][/\ otpStore' = otpStore
          /\ \A a \in RateLimitActions :
                rlStore'[a] # rlStore[a] =>
                    /\ Len(rlLog'[a]) = Len(rlLog[a]) + 1
                    /\ rlLog'[a][Len(rlLog'[a])].action = a
                    /\ \A b \in RateLimitActions \ {a} :
                          rlStore'[b] = rlStore[b] /\ rlLog'[b] = rlLog[b]]_vars
    /\ [](\A a \in RateLimitActions :
             \A i \in 1..Len(rlLog[a]) :
                 (rlLog[a][i].kind = "check" /\ ~rlLog[a][i].allowed) =>
                     /\ rlLog[a][i].before.present
                     /\ \/ BlockedAt(rlLog[a][i].before, rlLog[a][i].at)
                        \/ rlLog[a][i].before.requestCount.n >= 3)

C21_Witness ==
    /\ Len(rlLog["x"]) = 2
    /\ rlLog["x"][1].kind = "clear"
    /\ rlLog["x"][1].before.present
    /\ rlLog["x"][2].kind = "check"
    /\ rlLog["x"][2].allowed
    /\ Len(rlLog["otp_resend"]) = 1
    /\ ~rlLog["otp_resend"][1].allowed
    /\ rlLog["otp_resend"][1].at <= rlLog["x"][2].at
    /\ BlockedAt(rlStore["otp_resend"], now)
    /\ otpStore = OTPData("a@b.com", "register")

\* a text has a character that is not an ASCII decimal digit
HasNonDigit(code) == \E i \in 1..Len(code) : code[i] \notin Digits

\* C22: isValidOTP answers true exactly for the texts of six ASCII decimal
\* digits: never for the empty text, for a text of another length, or for a
\* text with a space, a letter or any other character.
C22_IsValidFormat ==
    (probe.fn = "isValidOTP" /\ probe.done) =>
        /\ probe.result \in BOOLEAN
        /\ probe.result <=> (Len(probe.arg) = 6 /\ ~HasNonDigit(probe.arg))
        /\ probe.arg = <<>> => ~probe.result
        /\ Len(probe.arg) # 6 => ~probe.result
        /\ HasNonDigit(probe.arg) => ~probe.result
        /\ probe.arg = Code_123456 => probe.result
        /\ probe.arg \in {Code_12345, Code_abcdef, Code_123_456} => ~probe.result

C22_Witness ==
    /\ probe.fn = "isValidOTP"
    /\ probe.done
    /\ probe.arg = Code_123_456
    /\ probe.result = FALSE

\* the puts and clears before the i-th call of the store
WritesBefore(i) == {j \in 1..(i - 1) : pvLog[j].op \in {"put", "clear"}}

\* the record of the latest put before the i-th call if no clear followed
\* it, and no record otherwise
LastWrite(i) ==
    IF WritesBefore(i) = {} THEN NoOTPData
    ELSE LET j == CHOOSE j \in WritesBefore(i) : \A k \in WritesBefore(i) : k <= j IN
         IF pvLog[j].op = "put" THEN pvLog[j].rec ELSE NoOTPData

\* C23: after any sequence of puts and clears, a get answers the record of
\* the latest put if no clear followed it and null otherwise, and the one
\* key holds that record and no other.
C23_LastWriteWins ==
    /\ \A i \in 1..Len(pvLog) : pvLog[i].op = "get" => pvLog[i].rec = LastWrite(i)
    /\ otpStore = LastWrite(Len(pvLog) + 1)

C23_Witness ==
    /\ Len(pvLog) = 5
    /\ pvLog[1].op = "put"
    /\ pvLog[2].op = "put"
    /\ pvLog[2].rec # pvLog[1].rec
    /\ pvLog[3].op = "get"
    /\ pvLog[3].rec = pvLog[2].rec
    /\ pvLog[4].op = "clear"
    /\ pvLog[5].op = "get"
    /\ pvLog[5].rec = NoOTPData

\* a stored value is a record with an email and a flow kind
HasEmailAndKind(r) == r.present /\ r.email # "" /\ r.type # ""

\* C24: the load of the screen redirects to the login screen when the key
\* holds no record or a record without email or without flow kind, and
\* whenever it does not adopt the stored record (the read failed); a load
\* that redirects leaves the email and the flow kind at their defaults and
\* produces no verification outcome; a load that does not redirect adopts a
\* full stored record.
C24_StartupPrecondition ==
    /\ [][(loadPc = "reading" /\ loadPc' # "reading") =>
            /\ ~HasEmailAndKind(otpStore) => loadPc' = "redirected"
            /\ loadPc' = "redirected" =>
                  /\ route' = "login"
                  /\ email' = email
                  /\ type' = type
                  /\ lastV' = lastV
                  /\ vcalls' = vcalls
            /\ loadPc' # "redirected" =>
                  /\ HasEmailAndKind(otpStore)
                  /\ email' = otpStore.email
                  /\ type' = otpStore.type
                  /\ route' = route]_vars
    /\ [](loadPc = "redirected" => (email = "" /\ type = "register"))

C24_Witness ==
    /\ loadPc = "redirected"
    /\ otpStore = OTPData("", "reset")
    /\ route = "login"
    /\ email = ""
    /\ type = "register"
    /\ lastV = NoVerify

\* the flow kind of the request a screen starts
FlowKindOf(screen) == IF screen = "register" THEN "register" ELSE "reset"

\* the remote service accepted the request of the last handler
RequestAccepted == lastE.title \in {"Welcome!", "Account Created", "Reset Link Sent"}

\* C25: once a registration or a recovery request has been accepted, the
\* pending-verification record holds the entered email and the flow kind of
\* the request, and a verification screen that has loaded has found it.
C25_RecordCreated ==
    RequestAccepted =>
        /\ otpStore = OTPData(lastE.email, FlowKindOf(lastE.screen))
        /\ loadPc # "redirected"

\* C26: once the user has left the verification screen by the back button,
\* no pending-verification record is stored.
C26_DeletedOnAbandon == route = "previous" => otpStore = NoOTPData

\* C27: on a screen that has loaded its context, after a verification has
\* ended in Success and the pending verification has been cleared, a resend
\* request reaches no remote operation.
C27_ResendMootAfterSuccess ==
    [][(loadPc = "loaded" /\ OutcomeKind(lastV.title) = "Success" /\ otpStore = NoOTPData
          /\ nResendTriggers' = nResendTriggers + 1) =>
         rcalls' = rcalls]_vars

\* C28: the countdown never goes below zero; apart from the arming by a
\* resend that ends, it changes only by one second less per timeout; while
\* it is above zero resend is disabled and a resend request dispatches
\* nothing; once above zero it reaches zero with resend enabled again.
C28_Countdown ==
    /\ [](resendTimer >= 0)
    /\ [](resendTimer > 0 => resendDisabled)
    /\ [][(resendTimer' # resendTimer /\ ~ResendEnds) => resendTimer' = resendTimer - 1]_vars
    /\ [][(resendTimer > 0 /\ nResendTriggers' = nResendTriggers + 1) => rcalls' = rcalls]_vars
    /\ (resendTimer > 0) ~> (resendTimer = 0 /\ ~resendDisabled)

C28_Witness ==
    /\ ReportsRateLimit(lastR.errText)
    /\ lastR.rResp = "error"
    /\ resendTimer = 0
    /\ ~resendDisabled
    /\ timeouts = {}
    /\ effectSeen = 0
    /\ nResendTriggers = 2
    /\ rcalls = {}

\* a step in which a timeout of the countdown fires
TimeoutFired ==
    /\ \E t \in timeouts : t \notin timeouts'
    /\ effectSeen' = effectSeen
    /\ mounted' = mounted

\* C29: once a rate-limited resend has armed the countdown to 300, also
\* during a countdown from 30, the timeout that fires next leaves 299: no
\* timeout of the old countdown puts the old value minus one in its place.
C29_RearmReplaces ==
    [][(TimeoutFired /\ ResendOutcomeKind(lastR.title) = "RateLimited" /\ resendTimer = 300) =>
         resendTimer' = 299]_vars

\* C30: at most one timeout of the countdown is pending; none is pending
\* after the screen is unmounted; and the only timeout that fires is the
\* one scheduled for the countdown as it stands, never one scheduled before
\* the countdown was armed again.
C30_TimerCancellation ==
    /\ [](Cardinality(timeouts) <= 1)
    /\ [](~mounted => timeouts = {})
    /\ [][TimeoutFired => \A t \in timeouts \ timeouts' : t = resendTimer]_vars

(***************************************************************************)
(* Results that arrive after the screen has been left                      *)
(***************************************************************************)
\* a step in which a remote call of handleVerify or handleResend settles
RemoteResultArrives == vcalls' # vcalls \/ rcalls' # rcalls

\* C31: once a verification screen that had loaded its context is
\* unmounted, a result of handleVerify or handleResend that arrives changes
\* the route of the application in no way.
C31_NoNavigationAfterTeardown ==
    [][(~mounted /\ loadPc = "loaded" /\ RemoteResultArrives) => route' = route]_vars

(***************************************************************************)
(* The digit boxes and the controls                                        *)
(***************************************************************************)
\* every box holds a digit
AllFilled(d) == \A i \in DOMAIN d : d[i] \in Digits

\* the code the boxes show, box by box
BoxCode(d) == [i \in DOMAIN d |-> d[i]]

\* C32: on a screen that has loaded its context, in either flow, a step that
\* fills the last empty box invokes handleVerify with the six digits of the
\* boxes, without any button.
C32_AutoVerification ==
    [][(loadPc = "loaded" /\ ~AllFilled(digits) /\ AllFilled(digits')) =>
         (nVerifyTriggers' = nVerifyTriggers + 1 /\ lastTrigger'.code = BoxCode(digits'))]_vars

(***************************************************************************)
(* Termination of the handlers                                             *)
(***************************************************************************)
\* a step in which a handleVerify invocation ends
VerifyEnds == vcalls' # vcalls /\ vcalls' = {}

\* C33: the step that ends a handleVerify invocation leaves loading and
\* verifying false and an outcome of the taxonomy, the step that ends a
\* handleResend invocation leaves loading false and an outcome of the
\* taxonomy, also when the remote call throws; and every invocation that
\* waits for the remote service ends once the service answers or throws.
C33_NoErrorFatal ==
    /\ [][VerifyEnds =>
            (~loading' /\ ~verifying' /\ OutcomeKind(lastV'.title) # "none")]_vars
    /\ [][ResendEnds => (~loading' /\ ResendOutcomeKind(lastR'.title) # "none")]_vars
    /\ (vcalls # {}) ~> (vcalls = {})
    /\ (rcalls # {}) ~> (rcalls = {})

\* a verification and a resend have both ended on a thrown exception
C33_Witness ==
    /\ lastV.vResp = "throw"
    /\ lastR.rResp = "throw"
    /\ vcalls = {}
    /\ rcalls = {}
    /\ ~loading
    /\ ~verifying
    /\ OutcomeKind(lastV.title) = "NetworkOrUnknown"
    /\ ResendOutcomeKind(lastR.title) = "NetworkOrUnknown"

(***************************************************************************)
(* The rate-limit guard under interleaved calls                            *)
(***************************************************************************)
\* the checks of an action that were answered allowed
AllowedChecks(a) == SelectSeq(rlLog[a], LAMBDA e : e.kind = "check" /\ e.allowed)

\* C34: whatever the interleaving of the calls of one action within one
\* window, at most 3 of them are answered allowed, and once all of up to
\* four calls have returned the stored requestCount is the number of calls.
C34_Interleaving ==
    /\ Len(AllowedChecks("x")) <= 3
    /\ (rlcalls = {} /\ nChecks > 0) => rlStore["x"].requestCount = Num(nChecks)

(***************************************************************************)
(* Verification and the loaded context                                     *)
(***************************************************************************)
\* the handleVerify invocations that a step starts
VerifyStarted == {c \in vcalls' : c.pc = "verifyOtp" /\ c \notin vcalls}

\* the discriminator of a stored flow kind
DiscriminatorOf(kind) == IF kind = "register" THEN "signup" ELSE "recovery"

\* C35: a remote verifyOtp call is only issued once the load of the pending
\* verification has completed with a record, and it carries the non-empty
\* email and the flow kind of that record.
C35_NoVerifyBeforeLoad ==
    [][\A c \in VerifyStarted :
          /\ loadPc = "loaded"
          /\ c.email # ""
          /\ c.email = otpStore.email
          /\ c.vtype = DiscriminatorOf(otpStore.type)]_vars

\* no verifyOtp call carries the recovery discriminator
RecoveryNeverVerified == \A c \in vcalls : c.vtype # "recovery"

\* C38: on a screen that has loaded a recovery, once the six boxes are
\* filled and nothing is in flight, handleVerify has been invoked or a
\* control that invokes it can be pressed.
C38_VerifyReachableInRecovery ==
    (mounted /\ loadPc = "loaded" /\ type = "reset" /\ AllFilled(digits) /\ ~InputDisabled) =>
        (nVerifyTriggers > 0 \/ ENABLED PressCreateAccount)

(***************************************************************************)
(* Resend calls in flight                                                  *)
(***************************************************************************)
\* C36: on a screen that has loaded its context, at most one remote resend
\* call is in flight.
C36_SingleResendInFlight == loadPc = "loaded" => Cardinality(rcalls) <= 1

(***************************************************************************)
(* A verifyOtp answer without user and without session                     *)
(***************************************************************************)
\* C37: a verification whose verifyOtp answered without error and with
\* neither a user nor a session has ended without Success, without the
\* session query, without navigation, and with the pending verification as
\* it was when the verification started.
C37_NoUserNoSession ==
    (lastV.vResp = "ok" /\ ~lastV.vData) =>
        /\ OutcomeKind(lastV.title) = "NetworkOrUnknown"
        /\ lastV.sResp = "none"
        /\ lastV.nav = "none"
        /\ route # "(tabs)"
        /\ ~lastV.cleared
        /\ otpStore = lastV.pvAtStart

C37_Witness ==
    /\ lastV.vResp = "ok"
    /\ ~lastV.vData
    /\ lastV.title = "Verification Error"
    /\ loadPc = "loaded"
    /\ otpStore = OTPData("a@b.com", "reset")
    /\ route = "otp-verification"
    /\ vcalls = {}

(***************************************************************************)
(* The theme                                                               *)
(***************************************************************************)
\* C39: a component whose mount effects have run shows the global theme,
\* and only mounted components are subscribed.
C39_ThemeBroadcast ==
    /\ \A c \in ThemeConsumers : consumers[c].phase = "mounted" => consumers[c].theme = globalTheme
    /\ \A i \in 1..Len(themeListeners) : consumers[themeListeners[i]].phase = "mounted"

\* C40: once a theme has been chosen by setTheme or toggleTheme, the global
\* theme is the latest theme chosen.
C40_ExplicitChoiceStable == themeChoice # "none" => globalTheme = themeChoice

====
